---- MODULE Spec2Model ----
(***************************************************************************)
(* Model of the GPU frame engine of winhdrtest (src/src/dx12.rs) and of    *)
(* the shell that drives it (src/src/main.rs).                             *)
(*                                                                         *)
(* The CPU is one sequential thread (the winit event loop); its position   *)
(* is pc.  The GPU is a second process that consumes the command queue in  *)
(* FIFO order at its own pace: a command list completes when it is popped, *)
(* a queued Signal(fence, v) sets the fence's completed value to v when it *)
(* is popped (ID3D12CommandQueue::Signal "updates a fence to a specified   *)
(* value": the value is stored, whether or not it is larger than the       *)
(* current one).                                                           *)
(***************************************************************************)
EXTENDS Integers, Sequences, FiniteSets

\* ---------------------------------------------------------------- constants
FRAME_COUNT == 2        \* const FRAME_COUNT: u32 = 2
ARENA_SIZE  == 1024 * 1024   \* let upload_buffer_size = 1024 * 1024
VERTEX_SIZE == 32       \* size_of::<Vertex>(): #[repr(C)] [f32; 2], [f32; 2], [f32; 4]

\* ------------------------------------------------------------------- bounds
MaxFrames == 7          \* frames the shell renders in one run
ResizeFrames == 3       \* the same, in the runs that draw every resize request
FontFrames == 3         \* the same, in the runs that draw every texture delta
MaxDim    == 2          \* resize(w, h) draws w from 0..MaxDim
MaxCalls  == 2          \* resize() calls between two frames
MaxDelta  == 2          \* entries in one TexturesDelta
MaxBufs   == 3          \* staging buffers created in one run
ViewMax   == 8          \* the runs over window sizes take every width and height in 1..ViewMax
PassFrames == 3         \* frames in the runs that draw every vertex list
ErrFrames == 3          \* frames in the runs in which engine calls can fail
StartFrames == 3        \* frames in the runs that begin before the engine is created
LiveFrames == 5         \* frames in the runs checked for termination of the waits
BarrierFrames == 3      \* frames in the runs that follow the resource states
MaxAdapters == 3        \* adapters the factory enumerates
AtlasMax == 70          \* the runs over atlas updates take every width in 1..AtlasMax
MaxLabels == 3          \* labels in one list handed to render_hdr_labels

Slots == 0 .. (FRAME_COUNT - 1)

\* Option<T>::None for resources (resource ids start at 1) and for the
\* pending (width, height) pair.
None   == 0
NoSize == <<>>

\* egui::TextureId::Managed(0) is the font atlas; any other id is encoded 1.
ManagedFont == 0
OtherId     == 1

\* D3D12 resource states used by the atlas and SDR-target barriers.
COPY_DEST             == "COPY_DEST"
PIXEL_SHADER_RESOURCE == "PIXEL_SHADER_RESOURCE"
RENDER_TARGET         == "RENDER_TARGET"
PRESENT               == "PRESENT"

VARIABLES
  \* --- Dx12State fields
  fence,               \* ID3D12Fence completed value (GetCompletedValue)
  fence_values,        \* Vec<u64>, one target per slot
  frame_index,         \* u32
  width, height,       \* u32
  pending_resize,      \* Option<(u32, u32)>: NoSize or <<w, h>>
  render_targets,      \* Vec<ID3D12Resource>: the swapchain generation of each held back-buffer
  sdr_texture,         \* the SDR intermediate target, as its <<w, h>>
  sdr_state,           \* D3D12 resource state of sdr_texture after the commands recorded so far
  font_texture,        \* Option<ID3D12Resource>
  font_srv_heap,       \* Option<ID3D12DescriptorHeap>
  font_upload_buffer,  \* Option<ID3D12Resource>
  cmds,                \* commands recorded in command_list since its last Reset (those on
                       \* the atlas, the SDR target and the vertex arena)
  \* --- objects outside the struct
  queue,               \* command queue: work submitted and not yet executed by the GPU
  refs,                \* COM reference count of every staging buffer
  nbuf,                \* staging buffers created so far
  swapchain_gen,       \* number of ResizeBuffers calls made on the swapchain
  event,               \* fence_event: set when the awaited fence value is reached
  \* --- control
  pc,                  \* position of the CPU thread
  drain_i,             \* loop index of wait_for_gpu
  drain_for,           \* caller of wait_for_gpu: "resize" or "drop"
  taken,               \* apply_pending_resize's local (width, height), from take()
  \* --- history (observations, not program state)
  frames,              \* number of end_frame calls
  submitted,           \* per slot, the target end_frame recorded at its last submission
  ncalls,              \* number of resize() calls since the last end_frame
  last_req,            \* arguments of the latest of them, NoSize if there is none
  delta,               \* argument of the last update_font_texture
  reuse,               \* what begin_frame saw when it last reset an allocator
  drained,             \* what the last drain left in flight when it returned
  \* --- the shell's state and the passes of the frame being recorded
  show_ui,             \* AppState::show_ui
  writes,              \* byte ranges of the upload arena written since begin_frame returned
  ops,                 \* engine and adapter operations render() has called in this frame
  lists,               \* the vertex lists render() handed to the passes of this frame
  ui_drawn,            \* history: some frame so far has recorded the UI layer
  probe,               \* observation of one numeric function: its arguments, then its value
  app,                 \* App: whether window and dx12 are Some, and how Dx12State::new ended
  rstate,              \* D3D12 state of every resource after the barriers recorded so far
  local                \* render(): `let width = dx12.width; let height = dx12.height;`

engine == <<fence_values, frame_index, width, height, pending_resize, render_targets,
            sdr_texture, sdr_state, font_texture, font_srv_heap, font_upload_buffer, cmds>>
passes == <<show_ui, local, writes, ops, lists, ui_drawn, probe, app, rstate>>
outside == <<queue, fence, refs, nbuf, swapchain_gen, event>>
control == <<pc, drain_i, drain_for, taken>>
history == <<frames, submitted, ncalls, last_req, delta, reuse, drained>>
vars == <<engine, outside, control, history, passes>>

\* ------------------------------------------------------------ queue entries
ClItem(slot, copies, held) ==
  [kind |-> "cl", slot |-> slot, val |-> 0, copies |-> copies, held |-> held, heaps |-> {}]
\* Mutant of SigItem: Signal is called with the value before the increment.
SigItemStale(slot, v) ==
  [kind |-> "sig", slot |-> slot, val |-> v - 1, copies |-> {}, held |-> None, heaps |-> {}]

SigItem(slot, v) ==
  [kind |-> "sig", slot |-> slot, val |-> v, copies |-> {}, held |-> None, heaps |-> {}]

\* Command lists submitted and not yet completed by the GPU.
InFlight == {i \in DOMAIN queue : queue[i].kind = "cl"}
Busy(slot) == \E i \in InFlight : queue[i].slot = slot

\* Font descriptor heaps bound by the draws of a command stream
\* (SetDescriptorHeaps in render_hdr_text and render_ui_quads).
HeapsOf(cs) ==
  {cs[i][3] : i \in {j \in DOMAIN cs : /\ cs[j][1] = "draw"
                                       /\ cs[j][2] \in {"hdr_text_pso", "sdr_quad_pso"}}}

\* A submitted command list with the heaps its draws read.
Sampling(item, cs) == [item EXCEPT !.heaps = HeapsOf(cs)]

\* Staging buffers read by the copy commands of a command stream.
CopiesOf(cs) == {cs[i][3] : i \in {j \in DOMAIN cs : cs[j][1] = "copy"}}

\* ------------------------------------------------- external API behaviour
\* IDXGISwapChain::GetCurrentBackBufferIndex after Present on a flip-model
\* swapchain of FRAME_COUNT buffers, and after ResizeBuffers.
IndexAfterPresent(i) == (i + 1) % FRAME_COUNT
IndexAfterResizeBuffers == 0

\* `fence.GetCompletedValue() < fence_value` is the condition to block.
FenceReached(completed, target) == ~(completed < target)

\* ------------------------------------------------------------------ resize
\* Mutant of ResizeIgnored: the "size hasn't changed" return is missing.
ResizeIgnoredZeroOnly(w, h) == w = 0 \/ h = 0

\* Mutant of ResizeIgnored: only a request for the current size is ignored.
ResizeIgnoredSameOnly(w, h) == w = width /\ h = height

\* resize(): the two early returns.
ResizeIgnored(w, h) ==
  \/ w = 0 \/ h = 0
  \/ (w = width /\ h = height)

\* resize(): the value left in pending_resize.
PendingAfterResize(w, h) ==
  IF ResizeIgnored(w, h) THEN pending_resize ELSE <<w, h>>

\* apply_pending_resize(): the early return after take().
NothingToApply(p) == p = NoSize \/ (p[1] = width /\ p[2] = height)

\* -------------------------------------------------------------- font atlas
\* delta.pos of an entry: None, or Some([x, y]).
NoPos == <<>>
Offsets == {<<1, 2>>}

\* One entry of TexturesDelta.set: the texture id and delta.pos.
Entries == [id : {ManagedFont, OtherId}, pos : {NoPos} \cup Offsets]

\* `let (dest_x, dest_y, is_partial) = match delta.pos { Some([x, y]) => (x as u32,
\* y as u32, true), None => (0, 0, false) }`
IsPartial(e) == e.pos # NoPos
Dest(e) == IF e.pos = NoPos THEN <<0, 0>> ELSE e.pos

RECURSIVE SeqsUpTo(_, _)
SeqsUpTo(S, n) ==
  IF n = 0 THEN {<<>>}
  ELSE LET shorter == SeqsUpTo(S, n - 1)
       IN  shorter \cup {Append(q, e) : q \in {r \in shorter : Len(r) = n - 1}, e \in S}

Deltas == SeqsUpTo(Entries, MaxDelta)

\* The part of the engine update_font_texture reads and writes.
FontState ==
  [tex |-> font_texture, heap |-> font_srv_heap, up |-> font_upload_buffer,
   refs |-> refs, n |-> nbuf, cmds |-> cmds]

\* Mutant of NotHonoured: every entry is processed, whatever its texture id.
NotHonouredNever(e) == FALSE

\* `if *id != egui::TextureId::Managed(0) { continue; }`
NotHonoured(e) == e.id # ManagedFont

\* Mutant of PartialSkipped: a patch is staged whether or not an atlas exists.
PartialSkippedNever(st, e) == FALSE

\* `None => continue, // Skip if no texture exists yet`
PartialSkipped(st, e) == IsPartial(e) /\ st.tex = None

\* The reference the copy source location takes on the staging buffer:
\* `ManuallyDrop::new(Some(upload_buffer.clone()))` adds one and never releases it.
CopyLocationRefs == 1

\* Dropping the value a field held releases one reference.
Release(rf, b) == IF b = None THEN rf ELSE [rf EXCEPT ![b] = @ - 1]

\* Mutant of StageAndCopy: a full update replaces the texture and keeps the
\* descriptor heap it found.
StageAndCopyKeepHeap(st, e) ==
  LET b   == st.n + 1
      tex == IF IsPartial(e) THEN st.tex ELSE b
      pre == IF IsPartial(e)
             THEN <<(<<"barrier", tex, PIXEL_SHADER_RESOURCE, COPY_DEST>>)>>
             ELSE <<>>
  IN  [tex  |-> tex,
       heap |-> st.heap,
       up   |-> b,
       refs |-> Release([st.refs EXCEPT ![b] = 1 + CopyLocationRefs], st.up),
       n    |-> b,
       cmds |-> st.cmds \o pre
                 \o <<(<<"copy", tex, b, Dest(e)>>),
                      (<<"barrier", tex, COPY_DEST, PIXEL_SHADER_RESOURCE>>)>>]

\* Mutant of StageAndCopy: a patch is copied into the atlas without the
\* transition to COPY_DEST.
StageAndCopyNoTransition(st, e) ==
  LET b   == st.n + 1
      tex == IF IsPartial(e) THEN st.tex ELSE b
  IN  [tex  |-> tex,
       heap |-> IF IsPartial(e) THEN st.heap ELSE b,
       up   |-> b,
       refs |-> Release([st.refs EXCEPT ![b] = 1 + CopyLocationRefs], st.up),
       n    |-> b,
       cmds |-> st.cmds
                 \o <<(<<"copy", tex, b, Dest(e)>>),
                      (<<"barrier", tex, COPY_DEST, PIXEL_SHADER_RESOURCE>>)>>]

\* The body of the loop for an entry that is processed.  The staging buffer is
\* resource number n + 1; a full update creates texture and descriptor heap of
\* the same number.
StageAndCopy(st, e) ==
  LET b   == st.n + 1
      tex == IF IsPartial(e) THEN st.tex ELSE b
      pre == IF IsPartial(e)
             THEN <<(<<"barrier", tex, PIXEL_SHADER_RESOURCE, COPY_DEST>>)>>
             ELSE <<>>
  IN  [tex  |-> tex,
       heap |-> IF IsPartial(e) THEN st.heap ELSE b,
       up   |-> b,
       refs |-> Release([st.refs EXCEPT ![b] = 1 + CopyLocationRefs], st.up),
       n    |-> b,
       cmds |-> st.cmds \o pre
                 \o <<(<<"copy", tex, b, Dest(e)>>),
                      (<<"barrier", tex, COPY_DEST, PIXEL_SHADER_RESOURCE>>)>>]

ApplyEntry(st, e) ==
  IF NotHonoured(e) THEN st
  ELSE IF PartialSkipped(st, e) THEN st
  ELSE StageAndCopy(st, e)

RECURSIVE ApplyDelta(_, _)
ApplyDelta(st, d) ==
  IF d = <<>> THEN st ELSE ApplyDelta(ApplyEntry(st, Head(d)), Tail(d))

\* ------------------------------------------------------------ upload arena
\* Content classes of the vertex regions.
PATTERN == "pattern"
UI      == "ui"
TEXT    == "text"

\* render_quads: `let frame_offset = self.frame_index as usize * 512 * 1024;`
PatternOffset(slot) == slot * 512 * 1024

\* render_ui_quads: `... * 512 * 1024 + 256 * 1024;`
UiOffset(slot) == slot * 512 * 1024 + 256 * 1024

\* render_hdr_text: `... * 512 * 1024 + 384 * 1024;`
TextOffset(slot) == slot * 512 * 1024 + 384 * 1024

\* The byte range the comment above each offset assigns to the region, as
\* <<first byte, end>>:
\* "Frame 0: 0-256KB, Frame 1: 512KB-768KB"
PatternRange(slot) ==
  IF slot = 0 THEN <<0, 256 * 1024>> ELSE <<512 * 1024, 768 * 1024>>

\* "Frame 0: 256KB-512KB, Frame 1: 768KB-1MB"
UiRange(slot) ==
  IF slot = 0 THEN <<256 * 1024, 512 * 1024>> ELSE <<768 * 1024, 1024 * 1024>>

\* "Frame 0: 384KB-512KB, Frame 1: 896KB-1MB"
TextRange(slot) ==
  IF slot = 0 THEN <<384 * 1024, 512 * 1024>> ELSE <<896 * 1024, 1024 * 1024>>

\* `let buffer_size = vertices.len() * vertex_size;`
BufferSize(n) == n * VERTEX_SIZE

\* `copy_nonoverlapping(vertices.as_ptr(), upload_buffer_ptr.add(frame_offset),
\* buffer_size)`: the bytes [first, end) of the arena are written.
ArenaWrite(class, slot, offset, n) ==
  [class |-> class, slot |-> slot, first |-> offset, end |-> offset + BufferSize(n)]

\* ------------------------------------------------------------------ passes
\* The SDR intermediate texture as the resource of a barrier or a clear
\* (atlas textures and staging buffers are numbered from 1).
SdrTexture == 0 - 1

\* What a pass reads and changes: the command list, the arena, the state of
\* the SDR texture; ops is the shell's record of the calls it made.
PassState == [cmds |-> cmds, writes |-> writes, sdr |-> sdr_state, ops |-> ops]

\* IASetVertexBuffers + DrawInstanced of a pass: pipeline, bound descriptor
\* heap, BufferLocation offset, SizeInBytes.
DrawCmd(pso, heap, offset, n) == <<"draw", pso, heap, offset, BufferSize(n)>>

\* Mutant of RenderUiQuads: the UI pass draws without looking for the atlas.
RenderUiQuadsNoAtlasCheck(st, slot, heap, n) ==
  IF n = 0 THEN st
  ELSE [st EXCEPT !.writes = Append(@, ArenaWrite(UI, slot, UiOffset(slot), n)),
                  !.cmds = Append(@, DrawCmd("sdr_quad_pso", heap, UiOffset(slot), n))]

\* render_quads(vertices), n = vertices.len()
RenderQuads(st, slot, n) ==
  IF n = 0 THEN st
  ELSE [st EXCEPT !.writes = Append(@, ArenaWrite(PATTERN, slot, PatternOffset(slot), n)),
                  !.cmds = Append(@, DrawCmd("quad_pso", None, PatternOffset(slot), n))]

\* render_hdr_text(vertices)
RenderHdrText(st, slot, heap, n) ==
  IF n = 0 THEN st
  ELSE IF heap = None THEN st
  ELSE [st EXCEPT !.writes = Append(@, ArenaWrite(TEXT, slot, TextOffset(slot), n)),
                  !.cmds = Append(@, DrawCmd("hdr_text_pso", heap, TextOffset(slot), n))]

\* clear_sdr_target()
ClearSdrTarget(st) ==
  [st EXCEPT !.cmds = @ \o <<(<<"barrier", SdrTexture, PIXEL_SHADER_RESOURCE, RENDER_TARGET>>),
                             (<<"clear", SdrTexture>>)>>,
             !.sdr = RENDER_TARGET]

\* render_ui_quads(vertices)
RenderUiQuads(st, slot, heap, n) ==
  IF n = 0 THEN st
  ELSE IF heap = None THEN st
  ELSE [st EXCEPT !.writes = Append(@, ArenaWrite(UI, slot, UiOffset(slot), n)),
                  !.cmds = Append(@, DrawCmd("sdr_quad_pso", heap, UiOffset(slot), n))]

\* composite_ui(paper_white_nits): six vertices generated in the shader, no
\* vertex buffer.
CompositeUi(st) ==
  [st EXCEPT !.cmds = @ \o <<(<<"barrier", SdrTexture, RENDER_TARGET, PIXEL_SHADER_RESOURCE>>),
                             DrawCmd("composite_pso", SdrTexture, 0, 0)>>,
             !.sdr = PIXEL_SHADER_RESOURCE]

\* The shell calls an operation: the call is recorded, then it takes effect.
Call(name, st) == [st EXCEPT !.ops = Append(@, name)]

\* Mutant of UiLayer: the composite pass is recorded before the UI pass.
UiLayerCompositeFirst(st, show, slot, heap, uv) ==
  IF show
  THEN LET a == ClearSdrTarget(Call("clear_sdr_target", st))
           b == CompositeUi(Call("composite_ui", a))
       IN  RenderUiQuads(Call("render_ui_quads", b), slot, heap, uv)
  ELSE st

\* Mutant of UiLayer: a hidden UI still has its SDR target cleared.
UiLayerClearsWhenHidden(st, show, slot, heap, uv) ==
  IF show
  THEN LET a == ClearSdrTarget(Call("clear_sdr_target", st))
           b == RenderUiQuads(Call("render_ui_quads", a), slot, heap, uv)
       IN  CompositeUi(Call("composite_ui", b))
  ELSE ClearSdrTarget(st)

\* render(): `if self.app_state.show_ui { clear_sdr_target(); render_ui_quads(..);
\* composite_ui(..); }`
UiLayer(st, show, slot, heap, uv) ==
  IF show
  THEN LET a == ClearSdrTarget(Call("clear_sdr_target", st))
           b == RenderUiQuads(Call("render_ui_quads", a), slot, heap, uv)
       IN  CompositeUi(Call("composite_ui", b))
  ELSE st

\* render(): `if !page_output.labels.is_empty() { render_hdr_labels(..);
\* render_hdr_text(..); }`
TextLayer(st, labels, slot, heap, tv) ==
  IF labels
  THEN RenderHdrText(Call("render_hdr_text", Call("render_hdr_labels", st)), slot, heap, tv)
  ELSE st

\* No vertex list handed out yet in this frame.
NoLists == [seen |-> FALSE, pattern |-> 0, labels |-> FALSE, text |-> 0, ui |-> 0]

\* ---------------------------------------------------------- resource states
\* The back-buffer of a slot as the resource of a barrier or a clear.
BackBuffer(slot) == 0 - 2 - slot
BackBuffers == {BackBuffer(s) : s \in Slots}

\* Every resource a barrier can name: back-buffers, SDR target, atlas textures.
Resources == BackBuffers \cup {SdrTexture} \cup (1 .. MaxBufs)

\* The state a resource is created in: swapchain buffers in COMMON/PRESENT,
\* the SDR target in PIXEL_SHADER_RESOURCE (create_sdr_render_target), an atlas
\* texture in COPY_DEST (update_font_texture).
CreatedIn(r) ==
  IF r \in BackBuffers THEN PRESENT
  ELSE IF r = SdrTexture THEN PIXEL_SHADER_RESOURCE
  ELSE COPY_DEST

\* No atlas texture of this number exists; a barrier has declared a 'before'
\* state the resource was not in.
NotCreated == "none"
MISMATCH   == "MISMATCH"

\* Mutant of ClearRenderTarget: the clear is recorded without the transition.
ClearRenderTargetNoBarrier(slot) == <<(<<"clear", BackBuffer(slot)>>)>>

\* clear_render_target(): barrier PRESENT -> RENDER_TARGET on
\* render_targets[frame_index], then ClearRenderTargetView.
ClearRenderTarget(slot) ==
  <<(<<"barrier", BackBuffer(slot), PRESENT, RENDER_TARGET>>), (<<"clear", BackBuffer(slot)>>)>>

\* end_frame(): barrier RENDER_TARGET -> PRESENT on render_targets[frame_index].
PresentBarrier(slot) == <<"barrier", BackBuffer(slot), RENDER_TARGET, PRESENT>>

\* The state of the resources after one more recorded command: a barrier
\* moves its resource to the 'after' state if it is in the declared 'before'
\* state; the first copy into a new atlas texture (which has the number of its
\* staging buffer) follows its creation.
AfterCommand(rs, c) ==
  IF c[1] = "barrier"
  THEN [rs EXCEPT ![c[2]] = IF @ = c[3] THEN c[4] ELSE MISMATCH]
  ELSE IF c[1] = "copy"
  THEN (IF c[2] = c[3] THEN [rs EXCEPT ![c[2]] = CreatedIn(c[2])] ELSE rs)
  ELSE rs

RECURSIVE AfterCommands(_, _)
AfterCommands(rs, cs) ==
  IF cs = <<>> THEN rs ELSE AfterCommands(AfterCommand(rs, Head(cs)), Tail(cs))

\* apply_pending_resize(): the back-buffers ResizeBuffers returns and, if it
\* has been rebuilt, the SDR target are new resources.
AfterResizeBuffers(rs, sdr) ==
  [r \in DOMAIN rs |-> IF r \in BackBuffers \/ (sdr /\ r = SdrTexture) THEN CreatedIn(r)
                       ELSE rs[r]]

\* The commands a recording step has added to the list that held `before`.
Added(before, after) == SubSeq(after, Len(before) + 1, Len(after))

\* ----------------------------------------------------------- f32 arithmetic
\* The f32 of the Rust code and of the shaders (IEEE 754 binary32, round to
\* nearest even), for the finite normal values the program computes with: an
\* f32 is [neg, m, e] with value (-1)^neg * m * 2^e, where m = 0 (and e = 0)
\* or 2^23 <= m < 2^24.
RECURSIVE BitLen(_)
BitLen(n) == IF n = 0 THEN 0 ELSE 1 + BitLen(n \div 2)

F32Zero == [neg |-> FALSE, m |-> 0, e |-> 0]

\* Round m * 2^e (plus a non-zero fraction of the last place when sticky) to
\* `bits` significant bits, to nearest, ties to even.
RoundTo(bits, neg, m, e, sticky) ==
  IF m = 0 THEN F32Zero
  ELSE LET k == BitLen(m) - bits
       IN  IF k <= 0
           THEN [neg |-> neg, m |-> m * 2^(0 - k), e |-> e + k]
           ELSE LET q    == m \div 2^k
                    r    == m % 2^k
                    half == 2^(k - 1)
                    up   == r > half \/ (r = half /\ (sticky \/ q % 2 = 1))
                    q1   == IF up THEN q + 1 ELSE q
                IN  IF q1 = 2^bits
                    THEN [neg |-> neg, m |-> 2^(bits - 1), e |-> e + k + 1]
                    ELSE [neg |-> neg, m |-> q1, e |-> e + k]

Round24(neg, m, e, sticky) == RoundTo(24, neg, m, e, sticky)

\* `n as f32` for a u32 below 2^24 (exact), and the literals 0.0, 1.0, 2.0, ...
FromInt(n) == Round24(FALSE, n, 0, FALSE)

\* `x as i32` for |x| < 2^31: truncation toward zero.
ToI32(x) ==
  LET mag == IF x.e >= 0 THEN x.m * 2^x.e
             ELSE IF 0 - x.e >= 24 THEN 0 ELSE x.m \div 2^(0 - x.e)
  IN  IF x.neg THEN 0 - mag ELSE mag

\* a * b: the 48-bit product of the mantissas, from 12-bit halves.
F32Mul(a, b) ==
  IF a.m = 0 \/ b.m = 0 THEN F32Zero
  ELSE LET ah == a.m \div 4096   al == a.m % 4096
           bh == b.m \div 4096   bl == b.m % 4096
           hi == ah * bh
           t  == ah * bl + al * bh + ((al * bl) \div 4096)
           lo == (al * bl) % 4096
           q  == hi * 16 + (t \div 256)
           r  == (t % 256) * 4096 + lo
       IN  Round24(a.neg # b.neg, q, a.e + b.e + 20, r # 0)

\* Long division: n more quotient bits of r / d appended to q.
RECURSIVE DivBits(_, _, _, _)
DivBits(q, r, d, n) ==
  IF n = 0 THEN <<q, r>>
  ELSE IF 2 * r >= d THEN DivBits(2 * q + 1, 2 * r - d, d, n - 1)
       ELSE DivBits(2 * q, 2 * r, d, n - 1)

\* a / b, b # 0
F32Div(a, b) ==
  IF a.m = 0 THEN F32Zero
  ELSE LET qr == DivBits(a.m \div b.m, a.m % b.m, b.m, 26)
       IN  Round24(a.neg # b.neg, qr[1], a.e - b.e - 26, qr[2] # 0)

\* |a| > |b|
MagGt(a, b) ==
  IF b.m = 0 THEN a.m # 0
  ELSE IF a.m = 0 THEN FALSE
  ELSE a.e > b.e \/ (a.e = b.e /\ a.m > b.m)

\* a > b
F32Gt(a, b) ==
  IF a.neg = b.neg THEN (IF a.neg THEN MagGt(b, a) ELSE MagGt(a, b))
  ELSE IF a.m = 0 /\ b.m = 0 THEN FALSE
  ELSE b.neg

\* |a| + |b| or |a| - |b| with |a| >= |b|, three guard bits.
MagAddSub(neg, a, b, sub) ==
  LET d  == a.e - b.e
      A  == a.m * 8
      B0 == b.m * 8
      B  == IF d >= 28 THEN 0 ELSE B0 \div 2^d
      st == IF d >= 28 THEN b.m # 0 ELSE B0 % 2^d # 0
  IN  IF sub
      THEN Round24(neg, IF st THEN A - B - 1 ELSE A - B, a.e - 3, st)
      ELSE Round24(neg, A + B, a.e - 3, st)

F32Neg(a) == IF a.m = 0 THEN a ELSE [a EXCEPT !.neg = ~@]

\* a + b
F32Add(a, b) ==
  IF a.m = 0 THEN b
  ELSE IF b.m = 0 THEN a
  ELSE IF MagGt(b, a) THEN MagAddSub(b.neg, b, a, a.neg # b.neg)
  ELSE MagAddSub(a.neg, a, b, a.neg # b.neg)

\* a - b
F32Sub(a, b) == F32Add(a, F32Neg(b))


\* ------------------------------------------------------- get_16_9_viewport
\* const TARGET_ASPECT: f32 = 16.0 / 9.0
TARGET_ASPECT == F32Div(FromInt(16), FromInt(9))

\* Mutant of Get169Viewport: the letterbox height is width * TARGET_ASPECT.
Get169ViewportMultiplies(w, h) ==
  LET window_aspect == F32Div(FromInt(w), FromInt(h))
      wide      == F32Gt(window_aspect, TARGET_ASPECT)
      vp_width  == IF wide THEN F32Mul(FromInt(h), TARGET_ASPECT) ELSE FromInt(w)
      vp_height == IF wide THEN FromInt(h) ELSE F32Mul(FromInt(w), TARGET_ASPECT)
      vp_x      == IF wide THEN F32Div(F32Sub(FromInt(w), vp_width), FromInt(2)) ELSE F32Zero
      vp_y      == IF wide THEN F32Zero ELSE F32Div(F32Sub(FromInt(h), vp_height), FromInt(2))
  IN  [TopLeftX |-> vp_x, TopLeftY |-> vp_y, Width |-> vp_width, Height |-> vp_height,
       left |-> ToI32(vp_x), top |-> ToI32(vp_y),
       right |-> ToI32(F32Add(vp_x, vp_width)), bottom |-> ToI32(F32Add(vp_y, vp_height))]

\* Mutant of Get169Viewport: the viewport is pushed to the right or bottom edge
\* instead of being centred.
Get169ViewportFlushRight(w, h) ==
  LET window_aspect == F32Div(FromInt(w), FromInt(h))
      wide      == F32Gt(window_aspect, TARGET_ASPECT)
      vp_width  == IF wide THEN F32Mul(FromInt(h), TARGET_ASPECT) ELSE FromInt(w)
      vp_height == IF wide THEN FromInt(h) ELSE F32Div(FromInt(w), TARGET_ASPECT)
      vp_x      == IF wide THEN F32Sub(FromInt(w), vp_width) ELSE F32Zero
      vp_y      == IF wide THEN F32Zero ELSE F32Sub(FromInt(h), vp_height)
  IN  [TopLeftX |-> vp_x, TopLeftY |-> vp_y, Width |-> vp_width, Height |-> vp_height,
       left |-> ToI32(vp_x), top |-> ToI32(vp_y),
       right |-> ToI32(F32Add(vp_x, vp_width)), bottom |-> ToI32(F32Add(vp_y, vp_height))]

\* get_16_9_viewport() of a w x h window: the D3D12_VIEWPORT fields and the
\* scissor RECT fields, in one record.
Get169Viewport(w, h) ==
  LET window_aspect == F32Div(FromInt(w), FromInt(h))
      wide      == F32Gt(window_aspect, TARGET_ASPECT)
      vp_width  == IF wide THEN F32Mul(FromInt(h), TARGET_ASPECT) ELSE FromInt(w)
      vp_height == IF wide THEN FromInt(h) ELSE F32Div(FromInt(w), TARGET_ASPECT)
      vp_x      == IF wide THEN F32Div(F32Sub(FromInt(w), vp_width), FromInt(2)) ELSE F32Zero
      vp_y      == IF wide THEN F32Zero ELSE F32Div(F32Sub(FromInt(h), vp_height), FromInt(2))
  IN  [TopLeftX |-> vp_x, TopLeftY |-> vp_y, Width |-> vp_width, Height |-> vp_height,
       left |-> ToI32(vp_x), top |-> ToI32(vp_y),
       right |-> ToI32(F32Add(vp_x, vp_width)), bottom |-> ToI32(F32Add(vp_y, vp_height))]

\* --------------------------------------------------- pixel shaders and blend
\* A colour is [r, g, b, a] of f32.
Colour(r, g, b, a) == [r |-> r, g |-> g, b |-> b, a |-> a]

\* nits_to_scrgb(nits), for a whole number of nits
NitsToScrgb(nits) == F32Div(FromInt(nits), FromInt(80))

\* A texel of the R8G8B8A8_UNORM SDR target as the sampler returns it: k/255.
Unorm8(k) == F32Div(FromInt(k), FromInt(255))

\* A value stored in the R16G16B16A16_FLOAT back buffer and read back: rounded
\* to the 11 significant bits of a half float (values in its normal range).
ToF16(x) ==
  LET hf == RoundTo(11, x.neg, x.m, x.e, FALSE)
  IN  Round24(hf.neg, hf.m, hf.e, FALSE)

\* composite_ui: paper_white_scale: paper_white_nits / 80.0
PaperWhiteScale(paper_white_nits) == F32Div(paper_white_nits, FromInt(80))

\* Mutant of CompositeShader: alpha is scaled as well (float4 ui * paperWhiteScale).
CompositeShaderScalesAlpha(ui, paperWhiteScale) ==
  Colour(F32Mul(ui.r, paperWhiteScale), F32Mul(ui.g, paperWhiteScale),
         F32Mul(ui.b, paperWhiteScale), F32Mul(ui.a, paperWhiteScale))

\* The composite pixel shader: uiScaled = ui.rgb * paperWhiteScale;
\* return float4(uiScaled, ui.a)
CompositeShader(ui, paperWhiteScale) ==
  Colour(F32Mul(ui.r, paperWhiteScale), F32Mul(ui.g, paperWhiteScale),
         F32Mul(ui.b, paperWhiteScale), ui.a)

\* ps_source_solid: return input.color
SolidShader(color) == color

\* The blend unit computes in f32 or in the precision of the target.
BlendPrecisions == {11, 24}
Rounded(bits, x) == IF bits = 24 THEN x ELSE ToF16(x)

\* Mutant of Blend: DestBlend is D3D12_BLEND_ONE (additive blending).
BlendAdditive(bits, src, dst) ==
  LET one == FromInt(1)
      inv == Rounded(bits, F32Sub(one, src.a))
      Rgb(s, d) == Rounded(bits, F32Add(Rounded(bits, F32Mul(s, src.a)),
                                        Rounded(bits, F32Mul(d, one))))
      alpha == Rounded(bits, F32Add(Rounded(bits, F32Mul(src.a, one)),
                                    Rounded(bits, F32Mul(dst.a, inv))))
  IN  Colour(ToF16(Rgb(src.r, dst.r)), ToF16(Rgb(src.g, dst.g)), ToF16(Rgb(src.b, dst.b)),
             ToF16(alpha))

\* BlendState of create_quad_pso on the FP16 target: colour = src * SRC_ALPHA
\* + dst * INV_SRC_ALPHA, alpha = src.a * ONE + dst.a * INV_SRC_ALPHA, then the
\* write to the target.
Blend(bits, src, dst) ==
  LET one == FromInt(1)
      inv == Rounded(bits, F32Sub(one, src.a))
      Rgb(s, d) == Rounded(bits, F32Add(Rounded(bits, F32Mul(s, src.a)),
                                        Rounded(bits, F32Mul(d, inv))))
      alpha == Rounded(bits, F32Add(Rounded(bits, F32Mul(src.a, one)),
                                    Rounded(bits, F32Mul(dst.a, inv))))
  IN  Colour(ToF16(Rgb(src.r, dst.r)), ToF16(Rgb(src.g, dst.g)), ToF16(Rgb(src.b, dst.b)),
             ToF16(alpha))

\* ------------------------------------------------------- render_hdr_labels
\* The vertices tessellation gives one label: two triangles of the glyph
\* quad, white and opaque (Color32::WHITE, so `v.color.a() as f32 / 255.0` is 1.0).
GlyphVertices == 6

\* render_hdr_labels(labels, width, height), labels given by their nits: for
\* each vertex, the label whose galley it comes from and its colour
\* [scrgb, scrgb, scrgb, a] with `let scrgb = labels[0].nits / 80.0`.
RenderHdrLabels(labels) ==
  IF labels = <<>> THEN <<>>
  ELSE LET scrgb == F32Div(FromInt(labels[1]), FromInt(80))
           a     == F32Div(FromInt(255), FromInt(255))
       IN  [k \in 1 .. (Len(labels) * GlyphVertices) |->
              [label |-> ((k - 1) \div GlyphVertices) + 1, color |-> Colour(scrgb, scrgb, scrgb, a)]]

\* ------------------------------------------------------------- staging rows
\* x & !255 for a u32 x.  The sizes drawn keep every product below 2^31, so
\* the u32 arithmetic of the staging code does not wrap.
ClearLow8(x) == x - (x % 256)

\* Mutant of RowPitch: the width in bytes is rounded down.
RowPitchRoundsDown(w) == ClearLow8(w * 4)

\* `let row_pitch = (width * 4 + 255) & !255; // Align to 256 bytes`
RowPitch(w) == ClearLow8(w * 4 + 255)

\* `let upload_size = row_pitch * height;`
UploadSize(w, h) == RowPitch(w) * h

\* The loop `for y in 0..height`: copy_nonoverlapping(pixels + y * width * 4,
\* mapped + y * row_pitch, width * 4), one entry per row.
StagedRows(w, h) ==
  [i \in 1 .. h |-> [src |-> (i - 1) * w * 4,
                     dst |-> (i - 1) * RowPitch(w),
                     len |-> w * 4]]

\* ------------------------------------------------------- adapter selection
\* What get_hardware_adapter reads of an adapter: the SOFTWARE flag of its
\* description and whether D3D12CreateDevice(adapter, FEATURE_LEVEL_11_0, null)
\* is_ok().  GetDesc1's only error is E_INVALIDARG for a null out-pointer, so
\* its `?` does not return.
AdapterKinds == [software : BOOLEAN, level : BOOLEAN]

\* Mutant of IsSoftware: the software flag is not looked at.
IsSoftwareNever(desc) == FALSE

\* `(desc.Flags & DXGI_ADAPTER_FLAG_SOFTWARE.0 as u32) != 0`
IsSoftware(desc) == desc.software

\* get_hardware_adapter(): `for i in 0.. { match factory.EnumAdapters1(i) { Err(_)
\* => break, .. } if software { continue; } if D3D12CreateDevice(..).is_ok() {
\* return Ok(adapter); } } Err(..)`, from index i on.
RECURSIVE GetHardwareAdapterFrom(_, _)
GetHardwareAdapterFrom(factory, i) ==
  IF i >= Len(factory) THEN [ok |-> FALSE, adapter |-> 0]
  ELSE IF IsSoftware(factory[i + 1]) THEN GetHardwareAdapterFrom(factory, i + 1)
  ELSE IF factory[i + 1].level THEN [ok |-> TRUE, adapter |-> i]
  ELSE GetHardwareAdapterFrom(factory, i + 1)

GetHardwareAdapter(factory) == GetHardwareAdapterFrom(factory, 0)

\* ----------------------------------------------------------------- pages
\* The six vertices add_quad and add_gradient_quad_h push for one quad: two
\* triangles over the corners (x0,y0) (x0,y1) (x1,y1) and (x0,y0) (x1,y1) (x1,y0).
QuadCorners == <<"x0y0", "x0y1", "x1y1", "x0y0", "x1y1", "x1y0">>

\* add_quad(vertices, ..) / add_gradient_quad_h(vertices, ..) for quad q
AddQuad(vertices, q) ==
  vertices \o [k \in 1 .. Len(QuadCorners) |-> [quad |-> q, corner |-> QuadCorners[k]]]

\* The calls of add_quad of a loop over the quads qs, in its order: six
\* vertices for each quad.
AddQuads(vertices, qs) ==
  vertices \o [k \in 1 .. Len(qs) * Len(QuadCorners) |->
                 [quad   |-> qs[((k - 1) \div Len(QuadCorners)) + 1],
                  corner |-> QuadCorners[((k - 1) % Len(QuadCorners)) + 1]]]

\* `for a in 0..outer { for b in 0..inner { .. } }`: the pairs in loop order.
Nested(outer, inner) ==
  [i \in 1 .. outer * inner |-> <<(i - 1) \div inner, (i - 1) % inner>>]

PageOutput(vertices, labels) == [vertices |-> vertices, labels |-> labels]

\* PqLevels::render: 4 rows of 4 cells, each a quad and a label of 40 nits.
PqLevels(w, h, max_brightness_nits, time) ==
  LET cells == Nested(4, 4)
  IN  PageOutput(AddQuads(<<>>, cells), [i \in DOMAIN cells |-> 40])

\* Mutant of ColorRamps: one segment per pixel column of the window.
ColorRampsPerPixel(w, h, max_brightness_nits, time) ==
  PageOutput(AddQuads(<<>>, Nested(6, w)), <<>>)

\* ColorRamps::render: 6 bars of 32 gradient segments, no label.
ColorRamps(w, h, max_brightness_nits, time) ==
  PageOutput(AddQuads(<<>>, Nested(6, 32)), <<>>)

\* AnimatedGradient::render: 64 gradient segments, one label of 80 nits.
AnimatedGradient(w, h, max_brightness_nits, time) ==
  PageOutput(AddQuads(<<>>, Nested(1, 64)), <<80>>)

\* SplitCompare::render: 8 bands of an SDR and an HDR quad, the dividing
\* line, two labels of 40 nits.
SplitCompare(w, h, max_brightness_nits, time) ==
  PageOutput(AddQuad(AddQuads(<<>>, Nested(8, 2)), <<8, 0>>), <<40, 40>>)

\* get_pages(): the registered pages, in order.
PageCount == 4
Render(page, w, h, max_brightness_nits, time) ==
  CASE page = 0 -> PqLevels(w, h, max_brightness_nits, time)
    [] page = 1 -> ColorRamps(w, h, max_brightness_nits, time)
    [] page = 2 -> AnimatedGradient(w, h, max_brightness_nits, time)
    [] page = 3 -> SplitCompare(w, h, max_brightness_nits, time)

\* -------------------------------------------------------------------- Init
\* The fields Dx12State::new(hwnd, width, height) returns, and the objects it
\* creates.
NewEngine(w, h) ==
  /\ fence = 0
  /\ fence_values = [s \in Slots |-> 0]
  /\ frame_index = 0
  /\ width = w /\ height = h
  /\ pending_resize = NoSize
  /\ render_targets = [s \in Slots |-> 0]
  /\ sdr_texture = <<w, h>>
  /\ sdr_state = PIXEL_SHADER_RESOURCE
  /\ font_texture = None /\ font_srv_heap = None /\ font_upload_buffer = None
  /\ cmds = <<>>
  /\ queue = <<>>
  /\ refs = [b \in 1 .. MaxBufs |-> 0]
  /\ nbuf = 0
  /\ swapchain_gen = 0
  /\ event = FALSE
  /\ drain_i = 0 /\ drain_for = "none" /\ taken = NoSize
  /\ frames = 0 /\ submitted = [s \in Slots |-> 0] /\ ncalls = 0 /\ last_req = NoSize /\ delta = <<>>
  /\ reuse = [seen |-> FALSE, slot |-> 0, completed |-> 0, target |-> 0, busy |-> FALSE,
              waited |-> FALSE, last |-> 0]
  /\ drained = [seen |-> FALSE, for |-> "none", inflight |-> 0]
  /\ show_ui = FALSE /\ ui_drawn = FALSE
  /\ writes = <<>> /\ ops = <<>> /\ lists = NoLists
  /\ local = NoSize
  /\ rstate = [r \in Resources |-> IF r \in 1 .. MaxBufs THEN NotCreated ELSE CreatedIn(r)]

\* Nothing observed yet.
NoProbe == [done |-> FALSE, arg |-> <<>>, val |-> <<>>]

\* The elapsed times observed: up to MaxElapsed seconds, at the whole second,
\* half way, and 100 ns before the next one.
MaxElapsed == 6
NanoMarks == {0, 500000000, 999999900}
Durations == (0 .. MaxElapsed) \X NanoMarks
Later(d, e) == e[1] > d[1] \/ (e[1] = d[1] /\ e[2] > d[2])

\* Positions of the interval slider (1.0 ..= 30.0), in seconds.
Intervals == {1, 2, 5}

\* ------------------------------------------------------------ AppState
\* A Duration: <<whole seconds, nanoseconds below one second>>.
ZeroDuration == <<0, 0>>

\* Duration::as_secs_f32(): `(secs as f32) + (nanos as f32) / (NANOS_PER_SEC as f32)`.
AsSecsF32(d) == F32Add(FromInt(d[1]), F32Div(FromInt(d[2]), FromInt(1000000000)))

\* x >= y for two f32 values
F32Ge(x, y) == ~F32Gt(y, x)

\* AppState::new(): page 0, auto-cycle off, an interval of 5.0 seconds, and
\* last_cycle_time = now.  last_cycle_time is kept as last_cycle_elapsed, the
\* Duration that last_cycle_time.elapsed() returns at this moment.
NewAppState ==
  [current_page |-> 0, auto_cycle |-> FALSE, cycle_interval |-> FromInt(5),
   last_cycle_elapsed |-> ZeroDuration]

\* Mutant of next_page: the timer is not restarted.
next_page_keeps_timer(s) ==
  [s EXCEPT !.current_page = (s.current_page + 1) % PageCount]

\* AppState::next_page()
next_page(s) ==
  [s EXCEPT !.current_page = (s.current_page + 1) % PageCount,
            !.last_cycle_elapsed = ZeroDuration]

\* Mutant of prev_page: page 0 stays page 0.
prev_page_stops_at_zero(s) ==
  [s EXCEPT !.current_page = IF s.current_page = 0 THEN 0 ELSE s.current_page - 1,
            !.last_cycle_elapsed = ZeroDuration]

\* AppState::prev_page()
prev_page(s) ==
  [s EXCEPT !.current_page = IF s.current_page = 0 THEN PageCount - 1 ELSE s.current_page - 1,
            !.last_cycle_elapsed = ZeroDuration]

\* AppState::update()
update(s) ==
  IF s.auto_cycle
  THEN LET elapsed == AsSecsF32(s.last_cycle_elapsed)
       IN  IF F32Ge(elapsed, s.cycle_interval) THEN next_page(s) ELSE s
  ELSE s

\* App::new(): window: None, dx12: None, app_state: AppState::new().
NoApp == [window |-> FALSE, dx12 |-> FALSE, init |-> "none", app_state |-> NewAppState]

\* Mutant of AfterResumed: the window is stored before the engine is created, and
\* a failure is only logged.
AfterResumedKeepsWindow(outcome) ==
  IF outcome = "Ok"
  THEN [app |-> [window |-> TRUE, dx12 |-> TRUE, init |-> outcome, app_state |-> NewAppState], pc |-> "idle"]
  ELSE [app |-> [window |-> TRUE, dx12 |-> FALSE, init |-> outcome, app_state |-> NewAppState], pc |-> "idle"]

\* resumed(): `match Dx12State::new(..) { Ok(dx12) => { self.dx12 = Some(dx12);
\* self.window = Some(window); } Err(e) => { eprintln!(..); event_loop.exit(); } }`:
\* what the App holds afterwards and where the event loop goes.  resumed() runs
\* before any event reaches app_state, which is still the one of App::new().
AfterResumed(outcome) ==
  IF outcome = "Ok"
  THEN [app |-> [window |-> TRUE, dx12 |-> TRUE, init |-> outcome, app_state |-> NewAppState], pc |-> "idle"]
  ELSE [app |-> [window |-> FALSE, dx12 |-> FALSE, init |-> outcome, app_state |-> NewAppState], pc |-> "failed"]

\* The engine after resumed() has created it, before the first frame.
New(w, h) ==
  /\ NewEngine(w, h)
  /\ pc = AfterResumed("Ok").pc
  /\ app = AfterResumed("Ok").app

\* The program starts in a 1x1 window.
Init == New(1, 1) /\ probe = NoProbe

\* ------------------------------------------------------------------ actions
\* Mutant of Resize: the request is applied at once instead of being deferred.
ResizeAtOnce(w, h) ==
  /\ pc = "idle"
  /\ ncalls < MaxCalls
  /\ ncalls' = ncalls + 1
  /\ last_req' = <<w, h>>
  /\ IF w = 0 \/ h = 0 \/ (w = width /\ h = height)
     THEN UNCHANGED <<width, height, sdr_texture>>
     ELSE width' = w /\ height' = h /\ sdr_texture' = <<w, h>>
  /\ UNCHANGED <<fence_values, frame_index, pending_resize, render_targets, sdr_state,
                 font_texture, font_srv_heap, font_upload_buffer, cmds>>
  /\ UNCHANGED <<outside, control, frames, submitted, delta, reuse, drained, passes>>

\* App::window_event, WindowEvent::Resized -> Dx12State::resize(w, h).
Resize(w, h) ==
  /\ pc = "idle"
  /\ ncalls < MaxCalls
  /\ pending_resize' = PendingAfterResize(w, h)
  /\ ncalls' = ncalls + 1
  /\ last_req' = <<w, h>>
  /\ UNCHANGED <<fence_values, frame_index, width, height, render_targets, sdr_texture,
                 sdr_state, font_texture, font_srv_heap, font_upload_buffer, cmds>>
  /\ UNCHANGED <<outside, control, frames, submitted, delta, reuse, drained, passes>>

\* begin_frame(), from the fence check on: block, or reset the allocator of
\* the selected slot and open the command list.
ResetAllocator(slot, fv) ==
  /\ pc' = "rec"
  /\ cmds' = <<>>
  /\ reuse' = [seen |-> TRUE, slot |-> slot, completed |-> fence,
               target |-> fv[slot], busy |-> Busy(slot), waited |-> pc = "fwait",
               last |-> submitted[slot]]
  /\ ops' = <<"begin_frame">>
  /\ writes' = <<>>
  /\ lists' = NoLists

FenceCheck(slot, fv) ==
  IF FenceReached(fence, fv[slot])
  THEN ResetAllocator(slot, fv) /\ UNCHANGED event
  ELSE pc' = "fwait" /\ event' = FALSE /\ UNCHANGED <<cmds, reuse, writes, ops, lists>>

\* render(): the locals width and height are read, then begin_frame() runs up
\* to its first blocking point.
BeginFrame ==
  /\ pc = "idle"
  /\ frames < MaxFrames
  /\ local' = <<width, height>>
  /\ pending_resize' = NoSize
  /\ IF NothingToApply(pending_resize)
     THEN /\ FenceCheck(frame_index, fence_values)
          /\ UNCHANGED <<drain_i, drain_for, taken>>
     ELSE /\ pc' = "drain" /\ drain_i' = 0 /\ drain_for' = "resize"
          /\ taken' = pending_resize
          /\ UNCHANGED <<cmds, reuse, event, writes, ops, lists>>
  /\ UNCHANGED <<fence_values, frame_index, width, height, render_targets, sdr_texture,
                 sdr_state, font_texture, font_srv_heap, font_upload_buffer>>
  /\ UNCHANGED <<queue, fence, refs, nbuf, swapchain_gen, show_ui, ui_drawn, probe, app, rstate>>
  /\ UNCHANGED <<frames, submitted, ncalls, last_req, delta, drained>>

\* begin_frame(): WaitForSingleObject returns.
FrameWake ==
  /\ pc = "fwait"
  /\ event
  /\ ResetAllocator(frame_index, fence_values)
  /\ event' = FALSE
  /\ UNCHANGED <<fence_values, frame_index, width, height, pending_resize, render_targets,
                 sdr_texture, sdr_state, font_texture, font_srv_heap, font_upload_buffer>>
  /\ UNCHANGED <<queue, fence, refs, nbuf, swapchain_gen, show_ui, local, ui_drawn, probe, app,
                 rstate>>
  /\ UNCHANGED <<drain_i, drain_for, taken, frames, submitted, ncalls, last_req, delta, drained>>

\* wait_for_gpu(): what follows the wait of iteration drain_i.
DrainNext ==
  IF drain_i + 1 < FRAME_COUNT
  THEN pc' = "drain" /\ drain_i' = drain_i + 1
  ELSE pc' = "drained" /\ drain_i' = drain_i

\* wait_for_gpu(): the target one iteration signals for slot i.
DrainTarget(fv, i) == fv[i] + 1

\* wait_for_gpu(): one iteration of the loop, up to its blocking point.
DrainIter ==
  /\ pc = "drain"
  /\ LET v == DrainTarget(fence_values, drain_i)
     IN  /\ queue' = Append(queue, SigItem(drain_i, v))
         /\ fence_values' = [fence_values EXCEPT ![drain_i] = v]
         /\ IF FenceReached(fence, v)
            THEN DrainNext /\ UNCHANGED event
            ELSE pc' = "dwait" /\ event' = FALSE /\ UNCHANGED drain_i
  /\ UNCHANGED <<frame_index, width, height, pending_resize, render_targets, sdr_texture,
                 sdr_state, font_texture, font_srv_heap, font_upload_buffer, cmds>>
  /\ UNCHANGED <<fence, refs, nbuf, swapchain_gen, drain_for, taken, history, passes>>

\* wait_for_gpu(): WaitForSingleObject returns.
DrainWake ==
  /\ pc = "dwait"
  /\ event
  /\ event' = FALSE
  /\ DrainNext
  /\ UNCHANGED <<engine, queue, fence, refs, nbuf, swapchain_gen, drain_for, taken, history,
                 passes>>

\* Mutant of ResetFenceValues: the targets survive the resize.
ResetFenceValuesKeeps(fv) == fv

\* apply_pending_resize(): `for i in 0..FRAME_COUNT { self.fence_values[i] = 0; }`
ResetFenceValues(fv) == [s \in DOMAIN fv |-> 0]

\* apply_pending_resize() after wait_for_gpu() has returned: reset the
\* allocators, drop the back-buffers, ResizeBuffers, rebuild the views and the
\* SDR target, store the size, zero the fence targets, re-query the index; then
\* begin_frame() goes on to its fence check.
FinishResize ==
  /\ pc = "drained"
  /\ drain_for = "resize"
  /\ drained' = [seen |-> TRUE, for |-> "resize", inflight |-> Cardinality(InFlight)]
  /\ swapchain_gen' = swapchain_gen + 1
  /\ render_targets' = [s \in Slots |-> swapchain_gen + 1]
  /\ sdr_texture' = taken
  /\ sdr_state' = PIXEL_SHADER_RESOURCE
  /\ width' = taken[1]
  /\ height' = taken[2]
  /\ fence_values' = ResetFenceValues(fence_values)
  /\ frame_index' = IndexAfterResizeBuffers
  /\ FenceCheck(frame_index', fence_values')
  /\ rstate' = AfterResizeBuffers(rstate, TRUE)
  /\ UNCHANGED <<pending_resize, font_texture, font_srv_heap, font_upload_buffer>>
  /\ UNCHANGED <<queue, fence, refs, nbuf, show_ui, local, ui_drawn, probe, app>>
  /\ UNCHANGED <<drain_i, drain_for, taken, frames, submitted, ncalls, last_req, delta>>

\* render() between begin_frame and the passes: clear_render_target, the UI
\* adapter's run, and update_font_texture(&ui_output.textures_delta).
UpdateFontTexture(d) ==
  /\ pc = "rec"
  /\ LET st == ApplyDelta(FontState, d)
     IN  /\ st.n <= MaxBufs
         /\ font_texture' = st.tex
         /\ font_srv_heap' = st.heap
         /\ font_upload_buffer' = st.up
         /\ refs' = st.refs
         /\ nbuf' = st.n
         /\ cmds' = st.cmds
         /\ rstate' = AfterCommands(rstate, ClearRenderTarget(frame_index) \o Added(cmds, st.cmds))
  /\ delta' = d
  /\ pc' = "upd"
  /\ ops' = ops \o <<"clear_render_target", "ui_run", "update_font_texture">>
  /\ UNCHANGED <<fence_values, frame_index, width, height, pending_resize, render_targets,
                 sdr_texture, sdr_state>>
  /\ UNCHANGED <<queue, fence, swapchain_gen, event, show_ui, local, writes, lists, ui_drawn,
                 probe, app>>
  /\ UNCHANGED <<drain_i, drain_for, taken, frames, submitted, ncalls, last_req, reuse, drained>>

\* render() from render_current_page to composite_ui: the pattern pass, the
\* HDR text pass if the page has labels, the UI layer if the UI is shown.  pv,
\* tv, uv are the lengths of the vertex lists of the page, of its labels and of
\* the UI mesh.
RenderPasses(pv, labels, tv, uv) ==
  /\ pc = "upd"
  /\ LET s1 == RenderQuads(Call("render_quads", Call("render_current_page", PassState)),
                           frame_index, pv)
         s2 == TextLayer(s1, labels, frame_index, font_srv_heap, tv)
         s3 == UiLayer(s2, show_ui, frame_index, font_srv_heap, uv)
     IN  /\ cmds' = s3.cmds
         /\ writes' = s3.writes
         /\ sdr_state' = s3.sdr
         /\ ops' = s3.ops
         /\ rstate' = AfterCommands(rstate, Added(cmds, s3.cmds))
  /\ lists' = [seen |-> TRUE, pattern |-> pv, labels |-> labels, text |-> tv, ui |-> uv]
  /\ pc' = "drawn"
  /\ UNCHANGED <<fence_values, frame_index, width, height, pending_resize, render_targets,
                 sdr_texture, font_texture, font_srv_heap, font_upload_buffer>>
  /\ ui_drawn' = (ui_drawn \/ show_ui)
  /\ UNCHANGED <<outside, drain_i, drain_for, taken, history, show_ui, local, probe, app>>

\* window_event, Ctrl+U -> AppState::toggle_ui()
ToggleUi ==
  /\ pc = "idle"
  /\ show_ui' = ~show_ui
  /\ UNCHANGED <<engine, outside, control, history, local, writes, ops, lists, ui_drawn, probe,
                 app, rstate>>


\* render_quads / render_hdr_text: let (viewport, scissor) = self.get_16_9_viewport()
GetViewport ==
  /\ ~probe.done
  /\ probe' = [done |-> TRUE, arg |-> <<width, height>>, val |-> Get169Viewport(width, height)]
  /\ UNCHANGED <<engine, outside, control, history, show_ui, local, writes, ops, lists,
                 ui_drawn, app, rstate>>

\* The GPU runs the composite draw for one pixel: the constants composite_ui
\* set, the sample of the SDR layer, the pixel shader.  probe.arg is
\* <<sample, paper_white_nits>>.
CompositePixel ==
  /\ ~probe.done /\ Len(probe.arg) = 2
  /\ probe' = [probe EXCEPT !.done = TRUE,
                            !.val = CompositeShader(probe.arg[1], PaperWhiteScale(probe.arg[2]))]
  /\ UNCHANGED <<engine, outside, control, history, show_ui, local, writes, ops, lists,
                 ui_drawn, app, rstate>>

\* The GPU runs the pattern pass (quad_pso) for one pixel of a quad built by
\* add_quad: the vertex colour through the solid shader, blended onto what the
\* back buffer holds.  probe.arg is <<vertex colour, target colour, precision>>.
PatternPixel ==
  /\ ~probe.done /\ Len(probe.arg) = 3
  /\ probe' = [probe EXCEPT !.done = TRUE,
                            !.val = Blend(probe.arg[3], SolidShader(probe.arg[1]), probe.arg[2])]
  /\ UNCHANGED <<engine, outside, control, history, show_ui, local, writes, ops, lists,
                 ui_drawn, app, rstate>>


\* render(): `self.ui_state.render_hdr_labels(&page_output.labels, width, height)`;
\* probe.arg is <<labels>>.
HdrLabels ==
  /\ ~probe.done /\ Len(probe.arg) = 1
  /\ probe' = [probe EXCEPT !.done = TRUE, !.val = RenderHdrLabels(probe.arg[1])]
  /\ UNCHANGED <<engine, outside, control, history, show_ui, local, writes, ops, lists,
                 ui_drawn, app, rstate>>

\* Mutant of EndFrameTarget: the target jumps by two.
EndFrameTargetPlusTwo(fv, slot) == fv[slot] + 2

\* render(): `self.app_state.render_current_page(width, height)`; probe.arg is
\* <<current_page, width, height, max_brightness_nits, elapsed seconds>>.
RenderCurrentPage ==
  /\ ~probe.done /\ Len(probe.arg) = 5
  /\ probe' = [probe EXCEPT !.done = TRUE,
                            !.val = Render(probe.arg[1], probe.arg[2], probe.arg[3],
                                           probe.arg[4], probe.arg[5])]
  /\ UNCHANGED <<engine, outside, control, history, show_ui, local, writes, ops, lists, ui_drawn,
                 app, rstate>>

\* window_event(): PageDown, or the "Next >" button of render_ui:
\* `self.app_state.next_page()`.
PageDown ==
  /\ app' = [app EXCEPT !.app_state = next_page(@)]
  /\ UNCHANGED <<engine, outside, control, history, show_ui, local, writes, ops, lists, ui_drawn,
                 probe, rstate>>

\* window_event(): PageUp, or the "< Prev" button of render_ui:
\* `self.app_state.prev_page()`.
PageUp ==
  /\ app' = [app EXCEPT !.app_state = prev_page(@)]
  /\ UNCHANGED <<engine, outside, control, history, show_ui, local, writes, ops, lists, ui_drawn,
                 probe, rstate>>

\* render(): `self.app_state.update()`; probe keeps the AppState the call found
\* and the one it left.
UpdateAppState ==
  /\ app' = [app EXCEPT !.app_state = update(@)]
  /\ probe' = [done |-> TRUE, arg |-> <<app.app_state>>, val |-> update(app.app_state)]
  /\ UNCHANGED <<engine, outside, control, history, show_ui, local, writes, ops, lists, ui_drawn,
                 rstate>>

\* render_ui(): the "Auto-cycle pages" checkbox is clicked.
SetAutoCycle ==
  /\ app' = [app EXCEPT !.app_state.auto_cycle = ~@]
  /\ UNCHANGED <<engine, outside, control, history, show_ui, local, writes, ops, lists, ui_drawn,
                 probe, rstate>>

\* render_ui(): the interval slider, shown while auto-cycle is on, is moved.
SetCycleInterval(seconds) ==
  /\ app.app_state.auto_cycle
  /\ app.app_state.cycle_interval # FromInt(seconds)
  /\ app' = [app EXCEPT !.app_state.cycle_interval = FromInt(seconds)]
  /\ UNCHANGED <<engine, outside, control, history, show_ui, local, writes, ops, lists, ui_drawn,
                 probe, rstate>>

\* Time passes between two events: last_cycle_time.elapsed() grows to d.
Elapse(d) ==
  /\ Later(app.app_state.last_cycle_elapsed, d)
  /\ app' = [app EXCEPT !.app_state.last_cycle_elapsed = d]
  /\ UNCHANGED <<engine, outside, control, history, show_ui, local, writes, ops, lists, ui_drawn,
                 probe, rstate>>

\* Dx12State::new(): `let adapter = get_hardware_adapter(&factory)?;`;
\* probe.arg is <<the adapters the factory enumerates>>.
SelectAdapter ==
  /\ ~probe.done
  /\ probe' = [probe EXCEPT !.done = TRUE, !.val = GetHardwareAdapter(probe.arg[1])]
  /\ UNCHANGED <<engine, outside, control, history, show_ui, local, writes, ops, lists, ui_drawn,
                 app, rstate>>

\* update_font_texture(): the staging buffer of one entry is created and
\* filled; probe.arg is <<width, height>> of the entry's image.
StageRows ==
  /\ ~probe.done
  /\ probe' = [probe EXCEPT !.done = TRUE,
                            !.val = [row_pitch   |-> RowPitch(probe.arg[1]),
                                     upload_size |-> UploadSize(probe.arg[1], probe.arg[2]),
                                     rows        |-> StagedRows(probe.arg[1], probe.arg[2])]]
  /\ UNCHANGED <<engine, outside, control, history, show_ui, local, writes, ops, lists, ui_drawn,
                 app, rstate>>

\* end_frame(): the target signalled for the active slot.
EndFrameTarget(fv, slot) == fv[slot] + 1

\* end_frame(): close and submit the list, present, signal, record the target,
\* re-query the back-buffer index.
EndFrame ==
  /\ pc = "drawn"
  /\ LET v == EndFrameTarget(fence_values, frame_index)
     IN  /\ queue' = queue \o <<Sampling(ClItem(frame_index, CopiesOf(cmds), font_upload_buffer),
                                         cmds),
                                SigItem(frame_index, v)>>
         /\ fence_values' = [fence_values EXCEPT ![frame_index] = v]
  /\ frame_index' = IndexAfterPresent(frame_index)
  /\ pc' = "idle"
  /\ local' = NoSize
  /\ frames' = frames + 1
  /\ submitted' = [submitted EXCEPT ![frame_index] = EndFrameTarget(fence_values, frame_index)]
  /\ ncalls' = 0
  /\ last_req' = NoSize
  /\ ops' = Append(ops, "end_frame")
  /\ rstate' = AfterCommands(rstate, <<PresentBarrier(frame_index)>>)
  /\ UNCHANGED <<width, height, pending_resize, render_targets, sdr_texture, sdr_state,
                 font_texture, font_srv_heap, font_upload_buffer, cmds>>
  /\ UNCHANGED <<fence, refs, nbuf, swapchain_gen, event, show_ui, writes, lists, ui_drawn,
                 probe, app>>
  /\ UNCHANGED <<drain_i, drain_for, taken, delta, reuse, drained>>

\* How Dx12State::new can end: Ok, or the Err of get_hardware_adapter, of the
\* device, of the swapchain, of a pipeline or of a resource creation.
InitOutcomes == {"Ok", "no adapter", "device", "swapchain", "pipeline", "resource"}

\* ApplicationHandler::resumed(), the window having been created.
Resumed(outcome) ==
  /\ pc = "start"
  /\ ~app.window
  /\ app' = AfterResumed(outcome).app
  /\ pc' = AfterResumed(outcome).pc
  /\ UNCHANGED <<engine, outside, drain_i, drain_for, taken, history, show_ui, local, writes, ops,
                 lists, ui_drawn, probe, rstate>>

\* The event loop exits and the App is dropped while it holds no engine.
ExitWithoutEngine ==
  /\ pc = "failed"
  /\ ~app.dx12
  /\ pc' = "exited"
  /\ UNCHANGED <<engine, outside, drain_i, drain_for, taken, history, passes>>

\* ------------------------------------------------------- failing calls
\* Mutant of OnRenderError: the error is logged and the frame loop goes on.
OnRenderErrorContinues == "idle"

\* window_event(RedrawRequested): `if let Err(e) = self.render() { eprintln!(..);
\* event_loop.exit(); return; }`: the event loop is exiting, no redraw is
\* requested, and winit delivers no further window event.
OnRenderError == "failed"

\* begin_frame() returns Err before any resize step has changed the engine:
\* the first Signal of wait_for_gpu, SetEventOnCompletion, allocator.Reset or
\* command_list.Reset fails.  `?` leaves render() at once.
BeginFrameFails ==
  /\ pc = "idle"
  /\ frames < MaxFrames
  /\ local' = <<width, height>>
  /\ pending_resize' = NoSize
  /\ ops' = <<"begin_frame", "Err">>
  /\ pc' = OnRenderError
  /\ UNCHANGED <<fence_values, frame_index, width, height, render_targets, sdr_texture,
                 sdr_state, font_texture, font_srv_heap, font_upload_buffer, cmds>>
  /\ UNCHANGED <<outside, drain_i, drain_for, taken, history, show_ui, writes, lists, ui_drawn,
                 probe, app, rstate>>

\* The steps of apply_pending_resize that can fail once the drain has returned.
ResizeSteps == {"allocator.Reset", "ResizeBuffers", "create_sdr_render_target"}

\* apply_pending_resize() returns Err after wait_for_gpu(): at the allocator
\* resets nothing has changed yet, at ResizeBuffers the back-buffer references
\* have been dropped, at create_sdr_render_target the new back-buffers are held
\* and the size is still the old one.
ResizeFails(step) ==
  /\ pc = "drained"
  /\ drain_for = "resize"
  /\ render_targets' = IF step = "allocator.Reset" THEN render_targets
                       ELSE IF step = "ResizeBuffers" THEN <<>>
                       ELSE [s \in Slots |-> swapchain_gen + 1]
  /\ swapchain_gen' = IF step = "create_sdr_render_target" THEN swapchain_gen + 1
                      ELSE swapchain_gen
  /\ rstate' = IF step = "create_sdr_render_target" THEN AfterResizeBuffers(rstate, FALSE)
                ELSE rstate
  /\ ops' = <<"begin_frame", "Err">>
  /\ pc' = OnRenderError
  /\ UNCHANGED <<fence_values, frame_index, width, height, pending_resize, sdr_texture,
                 sdr_state, font_texture, font_srv_heap, font_upload_buffer, cmds>>
  /\ UNCHANGED <<queue, fence, refs, nbuf, event, drain_i, drain_for, taken, history, show_ui, local,
                 writes, lists, ui_drawn, probe, app>>

\* update_font_texture() returns Err at an entry, a resource creation or
\* Map having failed, after the entries d before it have been processed.
UpdateFontTextureFails(d) ==
  /\ pc = "rec"
  /\ LET st == ApplyDelta(FontState, d)
     IN  /\ st.n <= MaxBufs
         /\ font_texture' = st.tex
         /\ font_srv_heap' = st.heap
         /\ font_upload_buffer' = st.up
         /\ refs' = st.refs
         /\ nbuf' = st.n
         /\ cmds' = st.cmds
         /\ rstate' = AfterCommands(rstate, ClearRenderTarget(frame_index) \o Added(cmds, st.cmds))
  /\ delta' = d
  /\ ops' = ops \o <<"clear_render_target", "ui_run", "update_font_texture", "Err">>
  /\ pc' = OnRenderError
  /\ UNCHANGED <<fence_values, frame_index, width, height, pending_resize, render_targets,
                 sdr_texture, sdr_state>>
  /\ UNCHANGED <<queue, fence, swapchain_gen, event, show_ui, local, writes, lists, ui_drawn,
                 probe, app>>
  /\ UNCHANGED <<drain_i, drain_for, taken, frames, submitted, ncalls, last_req, reuse, drained>>

\* The steps of end_frame that can fail.
EndFrameSteps == {"Close", "Present", "Signal"}

\* end_frame() returns Err: the barrier to PRESENT has been recorded; at Close
\* nothing has been submitted; at Present
\* and at Signal the command list is on the queue and no signal follows it,
\* the slot's target and frame_index keep their values.
EndFrameFails(step) ==
  /\ pc = "drawn"
  /\ queue' = IF step = "Close" THEN queue
              ELSE Append(queue, Sampling(ClItem(frame_index, CopiesOf(cmds),
                                                 font_upload_buffer), cmds))
  /\ rstate' = AfterCommands(rstate, <<PresentBarrier(frame_index)>>)
  /\ ops' = ops \o <<"end_frame", "Err">>
  /\ pc' = OnRenderError
  /\ UNCHANGED <<engine, fence, refs, nbuf, swapchain_gen, event, drain_i, drain_for, taken,
                 history, show_ui, local, writes, lists, ui_drawn, probe, app>>

\* The event loop exits (close request, Escape, or a render error) and the
\* App is dropped: Drop for Dx12State starts wait_for_gpu().
Drop ==
  /\ pc \in {"idle", "failed"}
  /\ app.dx12
  /\ pc' = "drain" /\ drain_i' = 0 /\ drain_for' = "drop"
  /\ UNCHANGED <<engine, outside, taken, history, passes>>

\* Drop for Dx12State after wait_for_gpu() has returned: the fields, and the
\* GPU objects they own, are released.
FinishDrop ==
  /\ pc = "drained"
  /\ drain_for = "drop"
  /\ drained' = [seen |-> TRUE, for |-> "drop", inflight |-> Cardinality(InFlight)]
  /\ pc' = "exited"
  /\ UNCHANGED <<engine, outside, drain_i, drain_for, taken, frames, submitted, ncalls, last_req,
                 delta, reuse, passes>>

\* The value the CPU thread is blocked on, when it is blocked.
Waiting == pc \in {"fwait", "dwait"}
WaitTarget == IF pc = "fwait" THEN fence_values[frame_index] ELSE fence_values[drain_i]

\* The GPU completes the command list at the head of the queue.
GpuExecute ==
  /\ queue # <<>>
  /\ Head(queue).kind = "cl"
  /\ queue' = Tail(queue)
  /\ UNCHANGED <<engine, fence, refs, nbuf, swapchain_gen, event, control, history, passes>>

\* The GPU reaches a queued Signal: the fence takes the signalled value, and
\* an event registered with SetEventOnCompletion for a value now reached is set.
GpuSignal ==
  /\ queue # <<>>
  /\ Head(queue).kind = "sig"
  /\ queue' = Tail(queue)
  /\ fence' = Head(queue).val
  /\ event' = (event \/ (Waiting /\ FenceReached(Head(queue).val, WaitTarget)))
  /\ UNCHANGED <<engine, refs, nbuf, swapchain_gen, control, history, passes>>

\* winit delivers a resize with any size, a width of 0 included.
Dims == 0 .. MaxDim

\* The sizes a window alternates between in the synchronisation runs.
TwoSizes == {<<1, 1>>, <<2, 1>>}

\* Frame loop, resizes between two sizes, teardown, GPU; the UI adapter
\* reports no atlas change.
Next ==
  \/ \E s \in TwoSizes : Resize(s[1], s[2])
  \/ BeginFrame
  \/ FrameWake
  \/ DrainIter
  \/ DrainWake
  \/ FinishResize
  \/ UpdateFontTexture(<<>>)
  \/ RenderPasses(6, FALSE, 0, 0)
  \/ EndFrame
  \/ Drop
  \/ FinishDrop
  \/ GpuExecute
  \/ GpuSignal

Spec == Init /\ [][Next]_vars

\* Frame loop with every resize request of the bounded range.
NextResize ==
  \/ \E w \in Dims, h \in Dims : Resize(w, h)
  \/ (frames < ResizeFrames /\ BeginFrame)
  \/ FrameWake
  \/ DrainIter
  \/ DrainWake
  \/ FinishResize
  \/ UpdateFontTexture(<<>>)
  \/ RenderPasses(6, FALSE, 0, 0)
  \/ EndFrame
  \/ GpuExecute
  \/ GpuSignal

SpecResize == Init /\ [][NextResize]_vars

\* Frame loop with every texture delta of the bounded range, no resize.
NextFont ==
  \/ (frames < FontFrames /\ BeginFrame)
  \/ FrameWake
  \/ \E d \in Deltas : UpdateFontTexture(d)
  \/ RenderPasses(6, FALSE, 0, 0)
  \/ EndFrame
  \/ GpuExecute
  \/ GpuSignal

SpecFont == Init /\ [][NextFont]_vars

\* Lengths of the vertex lists of a page: none, one quad, 1365 quads (262080
\* bytes, the most that fit 256 KiB).
PatternCounts == {0, 6, 8190}

\* Lengths of the triangle lists the UI adapter tessellates (the UI mesh, the
\* label mesh): none, one quad, 682 quads (130944 bytes, the most that fit
\* 128 KiB), 683 quads (131136 bytes).  The adapter puts no bound on them.
MeshCounts == {0, 6, 4092, 4098}

\* What a page hands to the text pass: no label, or labels and their mesh.
LabelLists == {<<FALSE, 0>>} \cup {<<TRUE, n>> : n \in MeshCounts}

\* The deltas of the pass runs: no change, or a full update of the font atlas.
AtlasDeltas == {<<>>, <<[id |-> ManagedFont, pos |-> NoPos]>>}

\* Frame loop with every vertex list of the bounded range, the UI toggled and
\* the window resized between frames, the atlas created in any frame or never.
NextPasses ==
  \/ ToggleUi
  \/ Resize(2, 1)
  \/ (frames < PassFrames /\ BeginFrame)
  \/ FrameWake
  \/ DrainIter
  \/ DrainWake
  \/ FinishResize
  \/ \E d \in AtlasDeltas : UpdateFontTexture(d)
  \/ \E pv \in PatternCounts, l \in LabelLists, uv \in MeshCounts :
        RenderPasses(pv, l[1], l[2], uv)
  \/ EndFrame
  \/ GpuExecute
  \/ GpuSignal

SpecPasses == Init /\ [][NextPasses]_vars

\* Window sizes of the runs over get_16_9_viewport: every small size, and
\* sizes of real windows on both sides of 16:9 and on it.
NamedSizes == {<<2000, 1000>>, <<1000, 1000>>, <<1920, 1080>>, <<1280, 720>>, <<3840, 2160>>,
               <<1921, 1080>>, <<1919, 1080>>, <<1920, 1079>>, <<1920, 1081>>, <<2560, 1080>>,
               <<3440, 1440>>, <<1024, 768>>, <<1080, 1920>>, <<4096, 1>>, <<1, 4096>>,
               <<4096, 2303>>, <<4096, 2304>>, <<4095, 2304>>, <<4096, 4096>>, <<800, 600>>}
WindowSizes == ((1 .. ViewMax) \X (1 .. ViewMax)) \cup NamedSizes

\* The engine is created for a window of any of these sizes, and the
\* viewport is computed for it.
InitViewport == \E s \in WindowSizes : New(s[1], s[2]) /\ probe = NoProbe
SpecViewport == InitViewport /\ [][GetViewport]_vars

\* Inputs of the runs over the composite pass: samples of the SDR layer
\* and paper-white settings of the slider (80..500), as whole nits.
TexelLevels == {0, 1, 128, 255}
Samples == {Colour(Unorm8(r), Unorm8(g), Unorm8(b), Unorm8(a)) :
              r \in TexelLevels, g \in TexelLevels, b \in TexelLevels, a \in TexelLevels}
PaperWhites == {80, 160, 200, 333, 500}

InitComposite ==
  /\ New(1, 1)
  /\ \E ui \in Samples, p \in PaperWhites :
       probe = [done |-> FALSE, arg |-> <<ui, FromInt(p)>>, val |-> <<>>]
SpecComposite == InitComposite /\ [][CompositePixel]_vars

\* Inputs of the runs over the pattern pass: grey vertex colours of 0 to
\* 10000 nits, opaque and half transparent, over every content of the target.
VertexNits == {0, 80, 200, 1000, 10000}
VertexColours ==
  {Colour(NitsToScrgb(n), NitsToScrgb(n), NitsToScrgb(n), a) :
     n \in VertexNits, a \in {FromInt(1), F32Div(FromInt(1), FromInt(2))}}
TargetLevels == {F32Zero, F32Div(FromInt(1), FromInt(2)), NitsToScrgb(200), NitsToScrgb(10000)}
TargetColours ==
  {Colour(r, g, b, a) : r \in TargetLevels, g \in TargetLevels, b \in TargetLevels,
                        a \in {F32Zero, FromInt(1)}}

InitPattern ==
  /\ New(1, 1)
  /\ \E src \in VertexColours, dst \in TargetColours, bits \in BlendPrecisions :
       probe = [done |-> FALSE, arg |-> <<src, dst, bits>>, val |-> <<>>]
SpecPattern == InitPattern /\ [][PatternPixel]_vars

\* Frame loop in which begin_frame, update_font_texture and end_frame can
\* fail, with a resize, atlas updates, the UI shown or hidden, and teardown.
NextErrors ==
  \/ ToggleUi
  \/ Resize(2, 1)
  \/ (frames < ErrFrames /\ BeginFrame)
  \/ (frames < ErrFrames /\ BeginFrameFails)
  \/ FrameWake
  \/ DrainIter
  \/ DrainWake
  \/ FinishResize
  \/ \E step \in ResizeSteps : ResizeFails(step)
  \/ \E d \in AtlasDeltas : UpdateFontTexture(d)
  \/ \E d \in AtlasDeltas : UpdateFontTextureFails(d)
  \/ RenderPasses(6, TRUE, 6, 6)
  \/ EndFrame
  \/ \E step \in EndFrameSteps : EndFrameFails(step)
  \/ Drop
  \/ FinishDrop
  \/ GpuExecute
  \/ GpuSignal

SpecErrors == Init /\ [][NextErrors]_vars

\* The program from App::new(): resumed() creates the engine or fails, then
\* the frame loop and teardown.
InitStartup ==
  /\ NewEngine(1, 1)
  /\ pc = "start"
  /\ app = NoApp
  /\ probe = NoProbe

NextStartup ==
  \/ \E outcome \in InitOutcomes : Resumed(outcome)
  \/ ExitWithoutEngine
  \/ (frames < StartFrames /\ BeginFrame)
  \/ FrameWake
  \/ UpdateFontTexture(<<>>)
  \/ RenderPasses(6, FALSE, 0, 0)
  \/ EndFrame
  \/ Drop
  \/ DrainIter
  \/ DrainWake
  \/ FinishDrop
  \/ GpuExecute
  \/ GpuSignal

SpecStartup == InitStartup /\ [][NextStartup]_vars

\* Label lists of the runs over render_hdr_labels: up to MaxLabels labels,
\* each of 40, 80, 200 or 1000 nits.
\* Frame loop, resizes, teardown and GPU as in Spec, over fewer frames; the
\* GPU completes every command list and processes every Signal it has been
\* given, and a WaitForSingleObject whose event is set returns.
NextLive ==
  \/ \E s \in TwoSizes : Resize(s[1], s[2])
  \/ (frames < LiveFrames /\ BeginFrame)
  \/ FrameWake
  \/ DrainIter
  \/ DrainWake
  \/ FinishResize
  \/ UpdateFontTexture(<<>>)
  \/ RenderPasses(6, FALSE, 0, 0)
  \/ EndFrame
  \/ Drop
  \/ FinishDrop
  \/ GpuExecute
  \/ GpuSignal

SpecLive ==
  /\ Init /\ [][NextLive]_vars
  /\ WF_vars(GpuExecute) /\ WF_vars(GpuSignal)
  /\ WF_vars(FrameWake) /\ WF_vars(DrainWake)

\* The deltas of the UI adapter for its font: none, the whole atlas, a patch,
\* the whole atlas and a patch.
PatchDeltas ==
  LET full  == [id |-> ManagedFont, pos |-> NoPos]
      patch == [id |-> ManagedFont, pos |-> <<1, 2>>]
  IN  {<<>>, <<full>>, <<patch>>, <<full, patch>>}

\* Frame loop with the UI shown or hidden, resizes, full and partial atlas updates, and
\* a page with labels: the runs in which every kind of barrier is recorded.
NextBarriers ==
  \/ ToggleUi
  \/ Resize(2, 1)
  \/ (frames < BarrierFrames /\ BeginFrame)
  \/ FrameWake
  \/ DrainIter
  \/ DrainWake
  \/ FinishResize
  \/ \E d \in PatchDeltas : UpdateFontTexture(d)
  \/ RenderPasses(6, TRUE, 6, 6)
  \/ EndFrame
  \/ GpuExecute
  \/ GpuSignal

SpecBarriers == Init /\ [][NextBarriers]_vars

LabelNits == {40, 80, 200, 1000}
LabelSeqs == SeqsUpTo(LabelNits, MaxLabels)

InitLabels ==
  /\ New(1, 1)
  /\ \E labels \in LabelSeqs : probe = [done |-> FALSE, arg |-> <<labels>>, val |-> <<>>]
SpecLabels == InitLabels /\ [][HdrLabels]_vars

\* The pages with window sizes, max-brightness settings and elapsed times.
PageSizes == {<<1, 1>>, <<1280, 720>>, <<3840, 2160>>}
PageBrightness == {80, 1000, 10000}
PageTimes == {0, 1, 3600}

InitPages ==
  /\ New(1, 1)
  /\ \E page \in 0 .. (PageCount - 1), sz \in PageSizes, b \in PageBrightness, t \in PageTimes :
       probe = [done |-> FALSE, arg |-> <<page, sz[1], sz[2], b, t>>, val |-> <<>>]
SpecPages == InitPages /\ [][RenderCurrentPage]_vars

\* Every list of up to MaxAdapters adapters, in enumeration order.
Factories == SeqsUpTo(AdapterKinds, MaxAdapters)

InitAdapters ==
  /\ New(1, 1)
  /\ \E factory \in Factories : probe = [done |-> FALSE, arg |-> <<factory>>, val |-> <<>>]
SpecAdapters == InitAdapters /\ [][SelectAdapter]_vars

\* The sizes of the images of atlas updates: every width up to AtlasMax and
\* the widths of whole atlases, with a few heights.
AtlasWidths == (1 .. AtlasMax) \cup {128, 512, 2048}
AtlasHeights == {1, 2, 3, 64}

InitStaging ==
  /\ New(1, 1)
  /\ \E w \in AtlasWidths, h \in AtlasHeights :
       probe = [done |-> FALSE, arg |-> <<w, h>>, val |-> <<>>]
SpecStaging == InitStaging /\ [][StageRows]_vars

\* The page selection and its timer: page keys and buttons, the auto-cycle
\* controls, update() and the passing of time.
NextCycle ==
  \/ PageDown
  \/ PageUp
  \/ UpdateAppState
  \/ SetAutoCycle
  \/ \E seconds \in Intervals : SetCycleInterval(seconds)
  \/ \E d \in Durations : Elapse(d)
SpecCycle == Init /\ [][NextCycle]_vars

\* ======================================================================
\* Claims
\* ======================================================================

\* C1: when begin_frame resets the selected slot's command allocator (and the
\* frame's passes go on to write that slot's upload regions), the GPU has
\* completed the previous submission made from that same slot.
C1_SlotReusedOnlyWhenIdle == reuse.seen => ~reuse.busy

\* C2: at the moment begin_frame proceeds past its wait and resets the slot's
\* allocator, the fence's completed value is at least fence_values[frame_index].
C2_CompletedReachedTarget == reuse.seen => reuse.completed >= reuse.target

\* C2 calls fence_values[frame_index] the target the slot recorded the last
\* time it submitted; this is the same comparison with that recorded target.
C2_CompletedReachedLastSubmitted == reuse.seen => reuse.completed >= reuse.last

\* C3: whenever a pending resize is applied, no submitted command list is in
\* flight at the point the allocators are reset and ResizeBuffers is called.
C3_ResizeAfterFullDrain ==
  (drained.seen /\ drained.for = "resize") => drained.inflight = 0

\* C4: on teardown the drain returns only when the GPU has completed every
\* submitted command list, so nothing is released while a list is incomplete.
C4_DropAfterFullDrain ==
  (drained.seen /\ drained.for = "drop") => drained.inflight = 0

\* C5: two calls resize(R1), resize(R2) with no begin_frame between them: the
\* next begin_frame leaves (width, height) = R2.  Stated for the requests R2
\* with both dimensions non-zero, the only ones an engine can be sized to.
C5_LastRequestWins ==
  (pc = "rec" /\ ncalls >= 2 /\ last_req[1] # 0 /\ last_req[2] # 0)
    => <<width, height>> = last_req

\* A step that is a call of resize(), and one that is ignored by it.
IsResizeCall == ncalls' = ncalls + 1
IsDegenerateCall ==
  IsResizeCall /\ (last_req'[1] = 0 \/ last_req'[2] = 0 \/ last_req' = <<width, height>>)

\* C6: resize(w, h) with w = 0 or h = 0, or with (w, h) the current size,
\* leaves every piece of engine state unchanged: pending_resize, size, fence
\* targets, frame index, render targets, SDR target, font atlas.
C6_DegenerateResizeIsNoOp ==
  [][IsDegenerateCall => UNCHANGED <<engine, outside>>]_vars

\* C6 witness: after some frames and an applied resize, resize() has been
\* called with the current size and nothing is pending.
C6_Witness ==
  /\ pc = "idle" /\ ncalls >= 1 /\ last_req = <<width, height>>
  /\ frames >= 1 /\ swapchain_gen >= 1 /\ pending_resize = NoSize

\* The steps of begin_frame in which a pending resize is being applied; the
\* command list is closed throughout.
ApplyingResize == pc \in {"drain", "dwait", "drained"} /\ drain_for = "resize"

\* begin_frame returns Ok: the command list is open from here on.
BeginFrameReturns == pc # "rec" /\ pc' = "rec"

\* C7 as stated: resize() changes at most pending_resize; (width, height),
\* the swapchain buffers, the SDR target and the fence targets change only
\* inside begin_frame, before recording is opened; after begin_frame no
\* request is left pending.
C7_OnlyBeginFrameChanges ==
  [][/\ IsResizeCall =>
          UNCHANGED <<fence_values, frame_index, width, height, render_targets,
                      sdr_texture, swapchain_gen, queue, fence>>
     /\ (<<width, height, render_targets, sdr_texture, swapchain_gen, fence_values>>'
           # <<width, height, render_targets, sdr_texture, swapchain_gen, fence_values>>)
          => ApplyingResize
     /\ BeginFrameReturns => pending_resize' = NoSize]_vars

\* C7 amended: as above, except that the fence targets are only *reset* (a
\* target lowered) inside begin_frame; end_frame and the drain raise them.
C7_ResizeAppliedOnlyInBeginFrame ==
  [][/\ IsResizeCall =>
          UNCHANGED <<fence_values, frame_index, width, height, render_targets,
                      sdr_texture, swapchain_gen, queue, fence>>
     /\ (<<width, height, render_targets, sdr_texture, swapchain_gen>>'
           # <<width, height, render_targets, sdr_texture, swapchain_gen>>)
          => ApplyingResize
     /\ (\E s \in Slots : fence_values'[s] < fence_values[s]) => ApplyingResize
     /\ BeginFrameReturns => pending_resize' = NoSize]_vars

\* C7 witness: a request was stored by resize() and applied by the begin_frame
\* that has just returned, after a frame had raised the fence targets.
C7_Witness ==
  /\ pc = "rec" /\ ncalls >= 1 /\ last_req = <<width, height>>
  /\ drained.seen /\ swapchain_gen >= 1 /\ frames >= 1
  /\ pending_resize = NoSize /\ sdr_texture = <<width, height>>

\* A step that is a call of update_font_texture.
IsFontUpdate == pc = "rec" /\ pc' = "upd"

\* Entries of a delta for the font atlas, and the first full one among them.
Managed(d) == {i \in DOMAIN d : d[i].id = ManagedFont}
FullOnes(d) == {i \in Managed(d) : ~IsPartial(d[i])}
BeforeAnyFull(d, i) == \A j \in FullOnes(d) : i < j

\* The entries of a delta addressed to managed slot 0, in their order.
FontEntriesOf(d) == SelectSeq(d, LAMBDA e : e.id = ManagedFont)

\* C8: a partial update that arrives while no atlas exists is dropped.  When
\* update_font_texture is entered with no atlas, the patches that precede the
\* delta's first full update create nothing: the staging buffers created are
\* exactly those of the other font entries, and a delta with no full update
\* leaves font_texture, font_srv_heap, font_upload_buffer, the command list
\* and the set of created resources unchanged.
C8_PartialWithoutAtlasDropped ==
  [][(IsFontUpdate /\ font_texture = None) =>
       /\ nbuf' = nbuf + Cardinality({i \in Managed(delta') : ~BeforeAnyFull(delta', i)})
       /\ FullOnes(delta') = {} =>
            UNCHANGED <<font_texture, font_srv_heap, font_upload_buffer, cmds, refs, nbuf>>]_vars

\* C8 witness: update_font_texture has returned from a delta that held a patch
\* for the font, and there is still no atlas, no heap and no staging buffer.
C8_Witness ==
  /\ pc = "upd" /\ font_texture = None /\ font_srv_heap = None
  /\ font_upload_buffer = None /\ cmds = <<>>
  /\ \E i \in Managed(delta) : IsPartial(delta[i])

\* C9: when end_frame submits a command list, the staging buffer of every
\* copy command in it is still retained by the engine (font_upload_buffer),
\* also when a delta carries more than one entry for managed slot 0.
C9_StagingRetainedAtSubmit ==
  \A i \in InFlight : queue[i].copies \subseteq {queue[i].held}

\* C10: the engine never replaces the retained staging buffer while the GPU
\* has not completed a submitted copy that reads it.
C10_StagingOutlivesCopy ==
  [][(font_upload_buffer # None /\ font_upload_buffer' # font_upload_buffer)
       => ~(\E i \in InFlight : font_upload_buffer \in queue[i].copies)]_vars

\* C11: update_font_texture honours only the entries for managed slot 0.  A
\* call leaves font_texture, font_srv_heap, font_upload_buffer, the command
\* list and the staging buffers exactly as the same call would with the
\* entries of other ids removed from the delta; a delta with no entry for
\* slot 0 changes none of them.
C11_OtherIdsIgnored ==
  [][IsFontUpdate =>
       /\ LET st == ApplyDelta(FontState, FontEntriesOf(delta'))
          IN  <<font_texture, font_srv_heap, font_upload_buffer, cmds, refs, nbuf>>'
                = <<st.tex, st.heap, st.up, st.cmds, st.refs, st.n>>
       /\ Managed(delta') = {} =>
            UNCHANGED <<font_texture, font_srv_heap, font_upload_buffer, cmds, refs, nbuf>>]_vars

\* C11 witness: update_font_texture has returned from a delta whose first
\* entry has another id and whose second is a full update for slot 0; one
\* staging buffer was created, for the second.
C11_Witness ==
  /\ pc = "upd" /\ Len(delta) = 2
  /\ delta[1].id = OtherId /\ delta[2].id = ManagedFont /\ ~IsPartial(delta[2])
  /\ font_texture = nbuf /\ font_upload_buffer = nbuf /\ nbuf >= 1

\* C12: the engine owns at most one font atlas.  font_texture and
\* font_srv_heap are both absent at construction; they are absent or present
\* together in every state; once present they stay present; they change only
\* in an update_font_texture call whose delta holds a full update for managed
\* slot 0, which replaces both.
C12_OneAtlasTextureAndHeapTogether ==
  /\ (font_texture = None /\ font_srv_heap = None)
  /\ [][/\ (font_texture' = None) <=> (font_srv_heap' = None)
        /\ (font_texture # None) => (font_texture' # None /\ font_srv_heap' # None)
        /\ (font_texture' # font_texture) <=> (font_srv_heap' # font_srv_heap)
        /\ (font_texture' # font_texture) <=> (IsFontUpdate /\ FullOnes(delta') # {})]_vars

\* C12 witness: an atlas created by a full update has been replaced by a later
\* full update, and a patch has been applied since: texture and heap are the
\* pair of the second full update.
C12_Witness ==
  /\ pc = "upd" /\ font_texture # None /\ font_texture = font_srv_heap
  /\ font_texture >= 2 /\ font_upload_buffer > font_texture

\* The six regions of the arena, and for each the offset the code writes it at
\* and the byte range the code's comment gives it.
Regions == {<<c, s>> : c \in {PATTERN, UI, TEXT}, s \in Slots}
OffsetOf(r) ==
  CASE r[1] = PATTERN -> PatternOffset(r[2])
    [] r[1] = UI      -> UiOffset(r[2])
    [] r[1] = TEXT    -> TextOffset(r[2])
RangeOf(r) ==
  CASE r[1] = PATTERN -> PatternRange(r[2])
    [] r[1] = UI      -> UiRange(r[2])
    [] r[1] = TEXT    -> TextRange(r[2])

\* Where the region of a write ends: at the next region's offset, or at the
\* end of the arena for the last one.
RegionEnd(r) ==
  LET later == {OffsetOf(q) : q \in {x \in Regions : OffsetOf(x) > OffsetOf(r)}} \cup {ARENA_SIZE}
  IN  CHOOSE e \in later : \A f \in later : e <= f

\* C13: every write a pass of the frame being recorded has made into the
\* arena starts at the offset of its (slot, class) region and ends inside it:
\* not in the next class's region, not in the other slot's, not after the
\* arena's last byte.
C13_WritesStayInRegion ==
  \A i \in DOMAIN writes :
    LET w == writes[i]
    IN  /\ w.first = OffsetOf(<<w.class, w.slot>>)
        /\ w.end <= RegionEnd(<<w.class, w.slot>>)
        /\ w.end <= ARENA_SIZE

\* C14: the six regions, each starting at the offset the code computes and
\* covering the byte range the code's comment gives it, are pairwise disjoint
\* and lie inside the arena.  Checked in every state for the regions of the
\* slot the engine is at (frame_index) against all six.
C14_RegionsDisjointInArena ==
  \A r \in {x \in Regions : x[2] = frame_index} :
    /\ RangeOf(r)[1] = OffsetOf(r)
    /\ RangeOf(r)[1] < RangeOf(r)[2]
    /\ RangeOf(r)[2] <= ARENA_SIZE
    /\ \A q \in Regions \ {r} :
         RangeOf(r)[2] <= RangeOf(q)[1] \/ RangeOf(q)[2] <= RangeOf(r)[1]

\* floor(4096 * x) of an f32 0 <= x < 2^14
Fx12(x) ==
  IF x.m = 0 THEN 0
  ELSE LET s == x.e + 12
       IN  IF s >= 0 THEN x.m * 2^s ELSE IF 0 - s >= 24 THEN 0 ELSE x.m \div 2^(0 - s)

\* x is num/den up to f32 rounding: not negative, and within 4/4096 of it
Near(x, num, den) ==
  /\ ~x.neg
  /\ LET d == den * Fx12(x) - 4096 * num
     IN  d <= 4 * den /\ 0 - d <= 4 * den

\* x rounded to one decimal, in tenths
Tenths(x) == (Fx12(x) * 10 + 2048) \div 4096

\* C15: get_16_9_viewport, for every window size w x h with non-zero w and h:
\* if w/h > 16/9 the viewport has height h, width h*16/9, x-offset
\* (w - width)/2 and y-offset 0; otherwise it has width w, height w*9/16,
\* x-offset 0 and y-offset (h - height)/2 (the computed f32 values equal the
\* real ones up to f32 rounding).  For 2000x1000: width 1777.8, height 1000,
\* x 111.1, y 0; for 1000x1000: width 1000, height 562.5, y 218.75.
C15_Viewport ==
  probe.done =>
    LET w == probe.arg[1]
        h == probe.arg[2]
        v == probe.val
    IN  /\ IF 9 * w > 16 * h
           THEN /\ v.Height = FromInt(h)
                /\ Near(v.Width, 16 * h, 9)
                /\ Near(v.TopLeftX, 9 * w - 16 * h, 18)
                /\ v.TopLeftY = F32Zero
           ELSE /\ v.Width = FromInt(w)
                /\ Near(v.Height, 9 * w, 16)
                /\ v.TopLeftX = F32Zero
                /\ Near(v.TopLeftY, 16 * h - 9 * w, 32)
        /\ (w = 2000 /\ h = 1000) =>
             /\ Tenths(v.Width) = 17778 /\ v.Height = FromInt(1000)
             /\ Tenths(v.TopLeftX) = 1111 /\ v.TopLeftY = F32Zero
        /\ (w = 1000 /\ h = 1000) =>
             /\ v.Width = FromInt(1000)
             /\ v.Height = F32Div(FromInt(1125), FromInt(2))
             /\ v.TopLeftY = F32Div(FromInt(875), FromInt(4))

\* C15 witness: the viewport of the 2000x1000 window has been computed, a
\* pillarbox whose scissor starts at pixel 111.
C15_Witness ==
  probe.done /\ probe.arg = <<2000, 1000>> /\ probe.val.left = 111 /\ probe.val.top = 0

\* m * c as <<hi, lo>> with value hi * 4096 + lo, for a mantissa m and c < 2^15
Wide(m, c) ==
  LET hi == (m \div 4096) * c
      lo == (m % 4096) * c
  IN  <<hi + (lo \div 4096), lo % 4096>>

\* out is x * p / 80 up to f32 rounding: within two units in the last place
\* of out (x an f32, p a whole number in 80..500).
ScaledBy(out, x, p) ==
  IF x.m = 0 THEN out.m = 0
  ELSE /\ out.m # 0 /\ out.neg = x.neg
       /\ out.e - x.e \in 0 .. 3
       /\ LET d  == out.e - x.e
              lhs == Wide(out.m, 80 * 2^d)
              rhs == Wide(x.m, p)
              dh  == lhs[1] - rhs[1]
          IN  /\ dh \in (0 - 1000) .. 1000
              /\ LET diff == dh * 4096 + (lhs[2] - rhs[2])
                 IN  diff <= 160 * 2^d /\ 0 - diff <= 160 * 2^d

\* 2 * x, exactly
Twice(x) == IF x.m = 0 THEN x ELSE [x EXCEPT !.e = @ + 1]

\* The whole number of nits an f32 paper-white setting stands for.
NitsOf(x) == ToI32(x)

\* C16: the composite pass outputs, for every SDR-layer sample (r, g, b, a)
\* and every paper-white setting p, the colour (r*p/80, g*p/80, b*p/80, a):
\* alpha is passed through unmodified and RGB is scaled by p/80 (up to f32
\* rounding); with p = 80 the output is the sample, and with p = 160 it is
\* exactly twice that.
C16_CompositeScalesRgb ==
  (probe.done /\ Len(probe.arg) = 2) =>
    LET ui  == probe.arg[1]
        p   == NitsOf(probe.arg[2])
        out == probe.val
    IN  /\ out.a = ui.a
        /\ ScaledBy(out.r, ui.r, p) /\ ScaledBy(out.g, ui.g, p) /\ ScaledBy(out.b, ui.b, p)
        /\ p = 80 => (out.r = ui.r /\ out.g = ui.g /\ out.b = ui.b)
        /\ p = 160 => (out.r = Twice(ui.r) /\ out.g = Twice(ui.g) /\ out.b = Twice(ui.b))

\* C16 witness: a half-transparent white sample has been composited at 160 nits.
C16_Witness ==
  /\ probe.done /\ Len(probe.arg) = 2
  /\ probe.arg[1] = Colour(Unorm8(255), Unorm8(255), Unorm8(255), Unorm8(128))
  /\ NitsOf(probe.arg[2]) = 160
  /\ probe.val.r = FromInt(2)

\* C17: an untextured quad pushed through the pattern pass with colour
\* [2.5, 2.5, 2.5, 1.0] reaches the HDR target with exactly that colour,
\* whatever the target held before; the same holds of every opaque vertex
\* colour (no gamma or other transform is applied).
C17_OpaqueColourUnchanged ==
  (probe.done /\ Len(probe.arg) = 3) =>
    LET src == probe.arg[1]
        c25 == F32Div(FromInt(5), FromInt(2))
    IN  /\ src = Colour(c25, c25, c25, FromInt(1)) => probe.val = Colour(c25, c25, c25, FromInt(1))
        /\ src.a = FromInt(1) => probe.val = src

\* C17 witness: the quad of colour [2.5, 2.5, 2.5, 1.0] has been drawn over
\* a target that held a different, non-black colour.
C17_Witness ==
  /\ probe.done /\ Len(probe.arg) = 3
  /\ probe.arg[1] = Colour(NitsToScrgb(200), NitsToScrgb(200), NitsToScrgb(200), FromInt(1))
  /\ probe.arg[2] = Colour(NitsToScrgb(10000), F32Div(FromInt(1), FromInt(2)), F32Zero, FromInt(1))
  /\ probe.val.r = F32Div(FromInt(5), FromInt(2))

\* Steps that are render()'s passes, and its end_frame.
IsRenderPasses == pc = "upd" /\ pc' = "drawn"
IsEndFrame == pc = "drawn" /\ pc' = "idle"

\* The calls of one frame in the order of the claim; the HDR text pass is
\* called when the page has labels (with none there is nothing to draw), the
\* UI layer when the UI is visible.
FrameOrder(labels, show) ==
  <<"begin_frame", "clear_render_target", "ui_run", "update_font_texture",
    "render_current_page", "render_quads">>
  \o (IF labels THEN <<"render_hdr_labels", "render_hdr_text">> ELSE <<>>)
  \o (IF show THEN <<"clear_sdr_target", "render_ui_quads", "composite_ui">> ELSE <<>>)
  \o <<"end_frame">>

IsPrefix(a, b) == Len(a) <= Len(b) /\ a = SubSeq(b, 1, Len(a))

\* The commands a step appends to the command list.
Recorded == SubSeq(cmds', Len(cmds) + 1, Len(cmds'))
Records == Len(cmds') > Len(cmds) /\ IsPrefix(cmds, cmds')

\* C18: the operations of every frame occur in the order begin_frame, UI
\* adapter run, update_font_texture, pattern pass, HDR text pass, then, only
\* if the UI is visible, SDR clear, UI pass, composite pass, and end_frame
\* last.  At every step the calls made so far are a prefix of that order, at
\* end_frame they are the whole of it, and commands are recorded and the arena
\* is written only after the frame's begin_frame and before its end_frame.
C18_FrameOrder ==
  [][/\ \E l, u \in BOOLEAN : IsPrefix(ops', FrameOrder(l, u))
     /\ IsEndFrame => ops' = FrameOrder(lists.labels, show_ui)
     /\ (Records \/ (writes' # writes /\ writes' # <<>>)) =>
          /\ ops # <<>> /\ Head(ops) = "begin_frame"
          /\ \A i \in DOMAIN ops : ops[i] # "end_frame"
          /\ ops'[Len(ops')] # "end_frame"]_vars

\* C18 witness: a frame with labels and a visible UI has been submitted after
\* an earlier frame: all twelve calls were made, in order.
C18_Witness ==
  /\ pc = "idle" /\ frames >= 2 /\ Len(ops) = 12
  /\ ops[8] = "render_hdr_text" /\ ops[11] = "composite_ui" /\ ops[12] = "end_frame"
  /\ Len(writes) = 3

\* Commands of the UI layer: a barrier or clear on the SDR texture, the UI
\* pass's draw, the composite draw.
UiCommand(c) ==
  \/ (c[1] \in {"barrier", "clear"} /\ c[2] = SdrTexture)
  \/ (c[1] = "draw" /\ c[2] \in {"sdr_quad_pso", "composite_pso"})

\* C19: a frame in which the UI is hidden records no SDR clear, no UI pass and
\* no composite pass, writes no UI vertices, and leaves the SDR texture in the
\* shader-readable state; whatever the toggling between frames, the SDR
\* texture is shader-readable when the passes are done and at end_frame.
C19_HiddenUiRecordsNothing ==
  [][/\ (IsRenderPasses /\ ~show_ui) =>
          /\ \A i \in DOMAIN Recorded : ~UiCommand(Recorded[i])
          /\ \A i \in DOMAIN writes' : writes'[i].class # UI
          /\ sdr_state' = PIXEL_SHADER_RESOURCE
     /\ IsRenderPasses => sdr_state' = PIXEL_SHADER_RESOURCE
     /\ IsEndFrame => sdr_state = PIXEL_SHADER_RESOURCE]_vars

\* C19 witness: the UI was drawn in an earlier frame, was toggled off, and the
\* passes of a frame with a non-empty UI mesh and an atlas have been recorded
\* with the UI hidden.
C19_Witness ==
  /\ pc = "drawn" /\ ~show_ui /\ ui_drawn /\ frames >= 1
  /\ lists.ui > 0 /\ font_srv_heap # None
  /\ sdr_state = PIXEL_SHADER_RESOURCE

\* The draws and arena writes of one content class among what a step adds.
DrawsOf(pso) == {i \in DOMAIN Recorded : Recorded[i][1] = "draw" /\ Recorded[i][2] = pso}
WritesOf(class) == {i \in DOMAIN writes' : writes'[i].class = class}

\* C20: the soft skips are silent no-ops.  In the passes of a frame, an empty
\* list given to render_quads, render_ui_quads or render_hdr_text, and a UI or
\* label list given while there is no font atlas, write nothing to the arena
\* and record no draw; the passes end without an error, at the point where
\* end_frame is called (a frame whose passes all skip leaves arena and command
\* list as they were).
C20_SoftSkipsAreNoOps ==
  [][IsRenderPasses =>
       /\ lists'.pattern = 0 => (DrawsOf("quad_pso") = {} /\ WritesOf(PATTERN) = {})
       /\ (lists'.text = 0 \/ font_srv_heap = None) =>
            (DrawsOf("hdr_text_pso") = {} /\ WritesOf(TEXT) = {})
       /\ (lists'.ui = 0 \/ font_srv_heap = None) =>
            (DrawsOf("sdr_quad_pso") = {} /\ WritesOf(UI) = {})
       /\ (lists'.pattern = 0 /\ font_srv_heap = None /\ ~show_ui) =>
            (cmds' = cmds /\ writes' = writes)
       /\ pc' = "drawn"]_vars

\* C20 witness: a frame was submitted whose UI and label lists were not empty
\* while no atlas existed and whose page list was empty: the UI layer was
\* called, and nothing was written to the arena.
C20_Witness ==
  /\ pc = "idle" /\ ops # <<>> /\ ops[Len(ops)] = "end_frame"
  /\ \E i \in DOMAIN ops : ops[i] = "render_ui_quads"
  /\ \E i \in DOMAIN ops : ops[i] = "render_hdr_text"
  /\ lists.seen /\ lists.pattern = 0 /\ lists.text > 0 /\ lists.ui > 0
  /\ font_srv_heap = None /\ writes = <<>>

\* render() has returned an error: the last thing recorded of the frame is
\* the failure of a call.
Failed == ops # <<>> /\ ops[Len(ops)] = "Err"

\* C21: if begin_frame (including an applied resize), update_font_texture or
\* end_frame returns an error in some frame, the shell exits the frame loop:
\* the rest of that frame's passes are not executed, and no later begin_frame,
\* draw pass or end_frame is ever issued on the engine (only the teardown
\* drain follows).
C21_ErrorExitsFrameLoop ==
  [][Failed => /\ ops' = ops /\ cmds' = cmds /\ writes' = writes /\ frames' = frames
               /\ Cardinality(InFlight') <= Cardinality(InFlight)
               /\ pc' \in {"failed", "drain", "dwait", "drained", "exited"}
               /\ (pc' # "failed" => drain_for' = "drop")]_vars

\* C21 witness: after a frame was presented, a later frame failed in
\* update_font_texture, with the clear already recorded, and the program has
\* torn the engine down.
C21_Witness ==
  /\ Failed /\ frames >= 1 /\ pc = "exited"
  /\ ops = <<"begin_frame", "clear_render_target", "ui_run", "update_font_texture", "Err">>

\* C22: if engine initialization fails (no suitable adapter, or any device,
\* swapchain, pipeline or resource creation error), startup is aborted: the
\* shell stores neither an engine nor a window, the event loop exits, and
\* render() is never invoked, so no operation is ever issued on a missing
\* engine.
C22_FailedInitAbortsStartup ==
  /\ [](~app.dx12 =>
          /\ ~app.window
          /\ pc \in {"start", "failed", "exited"}
          /\ ops = <<>> /\ cmds = <<>> /\ queue = <<>> /\ frames = 0 /\ ~reuse.seen)
  /\ []((app.init \notin {"none", "Ok"}) => ~app.dx12)
  /\ [][(app.init \notin {"none", "Ok"}) => (app' = app /\ pc' \in {"failed", "exited"})]_vars

\* C22 witness: no suitable adapter was found, and the event loop has exited.
C22_Witness == app.init = "no adapter" /\ ~app.dx12 /\ ~app.window /\ pc = "exited"

\* C23: render_hdr_labels gives every vertex generated for a label the
\* grayscale HDR colour derived from that label's own nits: for every list of
\* labels and every label L in it, the RGB of L's vertices equals L.nits / 80.
C23_LabelColourFromOwnNits ==
  (probe.done /\ Len(probe.arg) = 1) =>
    \A k \in DOMAIN probe.val :
      LET own == NitsToScrgb(probe.arg[1][probe.val[k].label])
          c   == probe.val[k].color
      IN  c.r = own /\ c.g = own /\ c.b = own

\* The Signal calls on the queue, oldest first.
Signals == {i \in DOMAIN queue : queue[i].kind = "sig"}

\* C24: the values the engine signals on its single shared fence through the
\* command queue (by end_frame for either slot and by the drain in resize and
\* teardown) form a monotonically increasing sequence in every execution: no
\* signal is enqueued with a value below that of an earlier one, whether the
\* earlier one is still queued or is the one the fence last took.
C24_SignalsIncrease ==
  /\ \A i \in Signals : \A j \in Signals : i < j => queue[i].val <= queue[j].val
  /\ \A i \in Signals : fence <= queue[i].val

\* A step in which end_frame returns Err.
IsEndFrameErr == pc = "drawn" /\ pc' = OnRenderError

\* The queue has grown by exactly the entries of `added`, at its tail.
Enqueued(added) == queue' = queue \o added

\* C25: end_frame transitions the active back-buffer to PRESENT, closes and
\* submits the command list, presents, enqueues the fence signal, records the
\* target and re-queries the back-buffer index, in this order: a complete call
\* leaves the back-buffer presentable, the list as recorded, the list and then
\* the signal of the slot's new target at the tail of the queue, the active
\* slot's target raised by exactly 1, every other target unchanged and
\* frame_index at the swapchain's index; a call that fails at a step has
\* recorded the barrier, has submitted at most the list, and has neither
\* enqueued a signal nor changed a target or frame_index.
C25_EndFrameOrder ==
  [][/\ IsEndFrame =>
          /\ rstate'[BackBuffer(frame_index)] = PRESENT
          /\ cmds' = cmds
          /\ \E copies \in SUBSET (1 .. MaxBufs), held \in (1 .. MaxBufs) \cup {None} :
               Enqueued(<<Sampling(ClItem(frame_index, copies, held), cmds),
                          SigItem(frame_index, fence_values[frame_index] + 1)>>)
          /\ fence_values'[frame_index] = fence_values[frame_index] + 1
          /\ \A s \in Slots \ {frame_index} : fence_values'[s] = fence_values[s]
          /\ frame_index' = IndexAfterPresent(frame_index)
     /\ IsEndFrameErr =>
          /\ rstate'[BackBuffer(frame_index)] = PRESENT
          /\ cmds' = cmds
          /\ \/ Enqueued(<<>>)
             \/ \E copies \in SUBSET (1 .. MaxBufs), held \in (1 .. MaxBufs) \cup {None} :
                  Enqueued(<<Sampling(ClItem(frame_index, copies, held), cmds)>>)
          /\ fence_values' = fence_values
          /\ frame_index' = frame_index
    ]_vars

\* Two frames have ended: slot 1's signal is the last entry of the queue, its
\* list the entry before it, and each slot's target is 1.
C25_Witness ==
  /\ pc = "idle" /\ frames = 2
  /\ Len(queue) >= 2
  /\ queue[Len(queue)] = SigItem(1, 1)
  /\ queue[Len(queue) - 1].kind = "cl" /\ queue[Len(queue) - 1].slot = 1
  /\ fence_values = [s \in Slots |-> 1]
  /\ rstate[BackBuffer(1)] = PRESENT

\* The step in which apply_pending_resize returns Ok to begin_frame.
ResizeApplied == pc = "drained" /\ drain_for = "resize" /\ pc' \in {"rec", "fwait"}

\* C26: when begin_frame has applied a pending resize to (w, h), width = w,
\* height = h, pending_resize is empty, every slot's fence target is 0, there
\* is exactly one back-buffer reference per slot and each is a buffer of the
\* resized swapchain, the SDR target has size (w, h) and is in the
\* shader-readable state, and frame_index is the swapchain's current index.
C26_StateAfterResize ==
  [][ResizeApplied =>
       /\ width' = taken[1] /\ height' = taken[2]
       /\ pending_resize' = NoSize
       /\ \A s \in Slots : fence_values'[s] = 0
       /\ DOMAIN render_targets' = Slots
       /\ \A s \in Slots : render_targets'[s] = swapchain_gen'
       /\ swapchain_gen' = swapchain_gen + 1
       /\ sdr_texture' = taken
       /\ sdr_state' = PIXEL_SHADER_RESOURCE
       /\ rstate'[SdrTexture] = PIXEL_SHADER_RESOURCE
       /\ frame_index' = 0
    ]_vars

\* A frame was rendered at 1x1, and begin_frame has applied a resize to 2x1:
\* the list is open, the targets are 0 while the fence is not.
C26_Witness ==
  /\ pc = "rec" /\ frames >= 1
  /\ swapchain_gen = 1
  /\ width = 2 /\ height = 1
  /\ fence > 0
  /\ fence_values = [s \in Slots |-> 0]

\* The three commands of a patch of atlas `tex` from staging buffer `b` at `dest`.
PatchCommands(tex, b, dest) ==
  <<(<<"barrier", tex, PIXEL_SHADER_RESOURCE, COPY_DEST>>),
    (<<"copy", tex, b, dest>>),
    (<<"barrier", tex, COPY_DEST, PIXEL_SHADER_RESOURCE>>)>>

\* The commands recorded for the patches `es` of atlas `tex`, the staging
\* buffers being numbered from b + 1.
RECURSIVE PatchesFrom(_, _, _)
PatchesFrom(tex, b, es) ==
  IF es = <<>> THEN <<>>
  ELSE PatchCommands(tex, b + 1, Head(es).pos) \o PatchesFrom(tex, b + 1, Tail(es))

\* C27: an update_font_texture whose entries for the font are all partial,
\* applied while an atlas exists, keeps font_texture and font_srv_heap and
\* records for each of them exactly the barrier shader-readable -> COPY_DEST,
\* the copy into the sub-rectangle at the entry's offset, and the barrier
\* COPY_DEST -> shader-readable; and after every update_font_texture the
\* atlas, if present, is in the shader-readable state.
C27_PartialUpdateInPlace ==
  /\ [][(/\ IsFontUpdate
          /\ font_texture # None
          /\ FontEntriesOf(delta') # <<>>
          /\ \A i \in Managed(delta') : IsPartial(delta'[i]))
        => /\ font_texture' = font_texture
           /\ font_srv_heap' = font_srv_heap
           /\ cmds' = cmds \o PatchesFrom(font_texture, nbuf, FontEntriesOf(delta'))
           /\ font_upload_buffer' = nbuf'
      ]_vars
  /\ [](font_texture # None => rstate[font_texture] = PIXEL_SHADER_RESOURCE)

\* The second frame has patched the atlas the first frame created: the atlas
\* and its heap are those of the first frame, the staging buffer is new, and
\* the list holds the three commands of the patch at offset (1, 2).
C27_Witness ==
  /\ pc = "upd" /\ frames = 1
  /\ delta = <<[id |-> ManagedFont, pos |-> <<1, 2>>]>>
  /\ font_texture = 1 /\ font_srv_heap = 1 /\ font_upload_buffer = 2
  /\ cmds = PatchCommands(1, 2, <<1, 2>>)
  /\ rstate[font_texture] = PIXEL_SHADER_RESOURCE

\* The command list is open: begin_frame has returned, end_frame has not.
ListOpen == pc \in {"rec", "upd", "drawn"}

\* The state of a frame slot: Recording while the open list records into its
\* allocator, Submitted while a command list of the slot is on the queue,
\* Idle otherwise.
SlotState(s) ==
  IF ListOpen /\ frame_index = s THEN "Recording"
  ELSE IF Busy(s) THEN "Submitted"
  ELSE "Idle"

SlotMoves == {<<"Idle", "Recording">>, <<"Recording", "Submitted">>, <<"Submitted", "Idle">>}

\* The parts of C28 other than the slot cycle: begin_frame only starts while
\* no list is open and end_frame only ends an open one, every change of the
\* command list other than its reset happens while it is open, and a command
\* list reaches the queue only in end_frame.
FrameBracketing ==
  [][/\ (~ListOpen /\ ListOpen') => ops' = <<"begin_frame">>
     /\ (ListOpen /\ ~ListOpen') => ops'[Len(ops')] = "end_frame"
     /\ (cmds' # cmds /\ cmds' # <<>>) => (ListOpen /\ ListOpen')
     /\ Cardinality(InFlight') > Cardinality(InFlight) => IsEndFrame
    ]_vars

\* C28: each frame slot only moves Idle -> Recording -> Submitted -> Idle;
\* begin_frame and end_frame alternate, at most one slot is Recording, every
\* recording operation happens while the list is open, and nothing recorded
\* reaches the GPU before end_frame submits it.
C28_SlotLifecycle ==
  /\ [][\A s \in Slots :
          SlotState(s)' # SlotState(s) => <<SlotState(s), SlotState(s)'>> \in SlotMoves]_vars
  /\ [](Cardinality({s \in Slots : SlotState(s) = "Recording"}) <= 1)
  /\ FrameBracketing

\* C29: if the GPU completes every submitted command list and processes every
\* enqueued Signal, the fence wait of begin_frame and every wait of the drain
\* of a resize or of teardown return.
C29_WaitsTerminate ==
  /\ (pc = "fwait") ~> (pc = "rec")
  /\ (pc = "dwait") ~> (pc \in {"drain", "drained"})

\* begin_frame is blocked on the fence after a resize has reset the targets.
C29_Witness == pc = "fwait" /\ swapchain_gen >= 1 /\ fence < fence_values[frame_index]

\* C30: every transition barrier the engine records declares as its 'before'
\* state the state the resource is in at that point of the command stream:
\* no back-buffer, SDR target or atlas texture has met a barrier whose
\* 'before' state it was not in.
C30_BarriersMatchState == \A r \in Resources : rstate[r] # MISMATCH

\* After a resize, a frame with the UI shown has patched the atlas an earlier
\* frame created and has been submitted: barriers on a back-buffer, on the
\* SDR target and on the atlas, in both directions, have been recorded.
C30_Witness ==
  /\ pc = "idle" /\ frames >= 2 /\ swapchain_gen >= 1
  /\ ops[Len(ops)] = "end_frame"
  /\ \E i \in DOMAIN ops : ops[i] = "composite_ui"
  /\ delta # <<>> /\ IsPartial(delta[1]) /\ delta[1].id = ManagedFont
  /\ font_texture # None /\ font_upload_buffer # font_texture
  /\ \E i \in DOMAIN cmds : cmds[i] = <<"barrier", font_texture, PIXEL_SHADER_RESOURCE, COPY_DEST>>
  /\ \A s \in Slots : rstate[BackBuffer(s)] = PRESENT
  /\ rstate[SdrTexture] = PIXEL_SHADER_RESOURCE
  /\ rstate[font_texture] = PIXEL_SHADER_RESOURCE

\* The step in which begin_frame finds a pending request and takes it.
TakesPending == pc = "idle" /\ pending_resize # NoSize /\ pending_resize' = NoSize

\* C31: a stored pending resize request has both dimensions non-zero and
\* differs from the current (width, height); so a begin_frame that finds a
\* request never leaves apply_pending_resize by its equality check, but
\* starts the drain of a real resize to the requested size.
C31_PendingIsRealResize ==
  /\ [](pending_resize # NoSize =>
          /\ pending_resize[1] # 0 /\ pending_resize[2] # 0
          /\ pending_resize # <<width, height>>)
  /\ [][TakesPending =>
          /\ pc' = "drain" /\ drain_for' = "resize"
          /\ taken' = pending_resize]_vars

\* A request for 2x1 is stored, a later request for the current size 1x1 was
\* ignored, and begin_frame has taken the stored one and drains.
C31_Witness ==
  /\ pc = "drain" /\ drain_for = "resize"
  /\ taken = <<2, 1>> /\ <<width, height>> = <<1, 1>>
  /\ last_req = <<1, 1>> /\ ncalls = 2
  /\ pending_resize = NoSize

\* C32: within every frame, while the list is open, the (width, height) the
\* shell hands to the UI adapter and to the pattern generator is the engine's
\* (width, height), which the frame's viewports, scissors and SDR target use;
\* also in the frame in which a pending resize is applied.
C32_ShellSizeIsEngineSize ==
  ListOpen => (local = <<width, height>> /\ local = sdr_texture)

\* The step in which update_font_texture replaces the atlas: the previous
\* texture and its descriptor heap lose their only reference.
ReplacesAtlas == IsFontUpdate /\ font_texture # None /\ font_texture' # font_texture

\* C33: when a full update replaces the font atlas, no command list that was
\* submitted earlier and reads the previous atlas through its descriptor heap
\* is still on the queue.
C33_AtlasOutlivesItsFrames ==
  [][ReplacesAtlas => ~(\E i \in InFlight : font_srv_heap \in queue[i].heaps)]_vars

\* The vertices a page emits for given inputs have been computed.
PageRendered == probe.done /\ Len(probe.arg) = 5

\* C34: every registered page, for every width, height, max brightness and
\* time, emits a vertex list that fits the pattern region of the arena: at
\* most 8192 vertices, 256 KiB at 32 bytes each; the count is a multiple of 6
\* and is the same for all inputs.
C34_PagesFitPatternRegion ==
  PageRendered =>
    LET n == Len(probe.val.vertices)
    IN  /\ n <= 8192
        /\ \A slot \in Slots :
             PatternOffset(slot) + BufferSize(n) <= PatternRange(slot)[2]
        /\ n % 6 = 0
        /\ n = Len(Render(probe.arg[1], 1, 1, 80, 0).vertices)

\* The colour ramps, the largest page, have been rendered for a 4K window at
\* 10000 nits: 6 * 32 quads.
C34_Witness ==
  /\ PageRendered
  /\ probe.arg = <<1, 3840, 2160, 10000, 3600>>
  /\ Len(probe.val.vertices) = 1152

\* The indices, in enumeration order from 0, of the adapters that are not
\* software adapters and support the minimum feature level.
Qualifying(factory) ==
  {i \in 0 .. (Len(factory) - 1) : ~factory[i + 1].software /\ factory[i + 1].level}

RowBytes(row) == row.dst .. (row.dst + row.len - 1)

\* C36: for an atlas update of width w and height h the row pitch is the
\* smallest multiple of 256 that is >= 4 * w, row y is staged at byte offset
\* y * row_pitch, the staged rows do not overlap one another, and every
\* staged byte lies inside the staging buffer of row_pitch * h bytes.
C36_RowPitchStaging ==
  probe.done =>
    LET w     == probe.arg[1]
        h     == probe.arg[2]
        pitch == probe.val.row_pitch
        rows  == probe.val.rows
    IN  /\ pitch % 256 = 0 /\ pitch >= 4 * w /\ pitch - 256 < 4 * w
        /\ Len(rows) = h
        /\ \A y \in 0 .. (h - 1) : rows[y + 1].dst = y * pitch /\ rows[y + 1].len = 4 * w
        /\ \A y1, y2 \in 1 .. h : y1 # y2 => RowBytes(rows[y1]) \cap RowBytes(rows[y2]) = {}
        /\ probe.val.upload_size = pitch * h
        /\ \A y \in 1 .. h : /\ rows[y].dst >= 0
                             /\ rows[y].dst + rows[y].len <= probe.val.upload_size

\* A patch 65 texels wide and 3 rows high: 260 bytes per row, pitch 512, the
\* last row staged at 1024 in a buffer of 1536 bytes.
C36_Witness ==
  /\ probe.done /\ probe.arg = <<65, 3>>
  /\ probe.val.row_pitch = 512
  /\ probe.val.rows[3].dst = 1024
  /\ probe.val.upload_size = 1536

\* x <= y for two f32 values
F32Le(x, y) == ~F32Gt(x, y)

\* x and y differ by at most 4/4096
Close(x, y) ==
  LET d == Fx12(x) - Fx12(y)
  IN  d <= 4 /\ 0 - d <= 4

\* C37: the viewport of get_16_9_viewport lies inside the window and is
\* centred: for every non-zero width w and height h the offsets are not
\* negative, offset + size does not exceed the window in either direction
\* (nor does the scissor), and the bars on opposite sides are equal up to f32
\* rounding; for a window of exactly 16:9 the viewport is the whole window.
C37_ViewportInsideAndCentred ==
  probe.done =>
    LET w == probe.arg[1]
        h == probe.arg[2]
        v == probe.val
        farX == F32Add(v.TopLeftX, v.Width)
        farY == F32Add(v.TopLeftY, v.Height)
    IN  /\ ~v.TopLeftX.neg /\ ~v.TopLeftY.neg
        /\ F32Le(v.Width, FromInt(w)) /\ F32Le(v.Height, FromInt(h))
        /\ F32Le(farX, FromInt(w)) /\ F32Le(farY, FromInt(h))
        /\ 0 <= v.left /\ v.left <= v.right /\ v.right <= w
        /\ 0 <= v.top /\ v.top <= v.bottom /\ v.bottom <= h
        /\ Close(F32Sub(FromInt(w), farX), v.TopLeftX)
        /\ Close(F32Sub(FromInt(h), farY), v.TopLeftY)
        /\ 9 * w = 16 * h =>
             /\ v.TopLeftX = F32Zero /\ v.TopLeftY = F32Zero
             /\ v.Width = FromInt(w) /\ v.Height = FromInt(h)
             /\ v.left = 0 /\ v.top = 0 /\ v.right = w /\ v.bottom = h

\* The viewport of a 1920x1080 window has been computed and is the whole
\* window.
C37_Witness ==
  /\ probe.done /\ probe.arg = <<1920, 1080>>
  /\ probe.val.Width = FromInt(1920) /\ probe.val.Height = FromInt(1080)
  /\ probe.val.right = 1920 /\ probe.val.bottom = 1080

\* The page selection and its timer.
AppPages == app.app_state

\* n calls of next_page, for n up to PageCount
NextPages(s, n) ==
  LET F[i \in 0 .. PageCount] == IF i = 0 THEN s ELSE next_page(F[i - 1])
  IN  F[n]

\* C38: current_page is always a valid index (0 <= current_page < page_count)
\* after any sequence of next_page, prev_page and update calls; next_page and
\* prev_page wrap around at the ends, next_page followed by prev_page (and the
\* reverse) restores the page, and page_count consecutive next_page calls
\* return to the starting page.
C38_PageIndexValid ==
  LET s == AppPages
      p == s.current_page
  IN  /\ p \in 0 .. PageCount - 1
      /\ next_page(s).current_page \in 0 .. PageCount - 1
      /\ prev_page(s).current_page \in 0 .. PageCount - 1
      /\ update(s).current_page \in 0 .. PageCount - 1
      /\ next_page(s).current_page = (IF p = PageCount - 1 THEN 0 ELSE p + 1)
      /\ prev_page(s).current_page = (IF p = 0 THEN PageCount - 1 ELSE p - 1)
      /\ prev_page(next_page(s)).current_page = p
      /\ next_page(prev_page(s)).current_page = p
      /\ NextPages(s, PageCount).current_page = p

\* update() has just wrapped from the last page to page 0.
C38_Witness ==
  /\ probe.done /\ probe.arg[1].current_page = PageCount - 1
  /\ AppPages = probe.val /\ AppPages.current_page = 0

\* The update() call observed last changed the page.
Advanced == probe.done /\ probe.val.current_page # probe.arg[1].current_page

\* The Duration d is at least x seconds, x being an f32 holding a whole number
\* of seconds, as every position in Intervals and the initial 5.0 are.
AtLeast(d, x) == d[1] >= ToI32(x)

\* Every page change restarts the timer, and nothing else moves it back.
TimerRestarts ==
  /\ [](/\ next_page(AppPages).last_cycle_elapsed = ZeroDuration
        /\ prev_page(AppPages).last_cycle_elapsed = ZeroDuration
        /\ Advanced => probe.val.last_cycle_elapsed = ZeroDuration)
  /\ [][/\ AppPages.current_page' # AppPages.current_page
           => AppPages.last_cycle_elapsed' = ZeroDuration
        /\ AppPages.last_cycle_elapsed' # AppPages.last_cycle_elapsed
           => \/ AppPages.last_cycle_elapsed' = ZeroDuration
              \/ Later(AppPages.last_cycle_elapsed, AppPages.last_cycle_elapsed')]_vars

\* C39 as stated: update() advances the page by exactly one (wrapping) if and
\* only if auto-cycle is enabled and at least cycle_interval has elapsed since
\* the last page change; every page change restarts that timer.
C39_AdvanceIffIntervalElapsed ==
  /\ [](probe.done =>
          LET s == probe.arg[1]
          IN  IF s.auto_cycle /\ AtLeast(s.last_cycle_elapsed, s.cycle_interval)
              THEN /\ probe.val.current_page = (s.current_page + 1) % PageCount
                   /\ Advanced
              ELSE probe.val = s)
  /\ TimerRestarts

\* C39, amended: update() advances the page by exactly one (wrapping) if and
\* only if auto-cycle is enabled and the time elapsed since the last page
\* change, converted to f32 seconds by as_secs_f32, is at least cycle_interval;
\* every page change, manual or automatic, restarts that timer, so an
\* automatic advance comes no earlier than one f32 rounding step before
\* cycle_interval has passed since the previous page change.
C39_AdvanceIffRoundedElapsed ==
  /\ [](probe.done =>
          LET s == probe.arg[1]
          IN  IF s.auto_cycle /\ F32Ge(AsSecsF32(s.last_cycle_elapsed), s.cycle_interval)
              THEN /\ probe.val.current_page = (s.current_page + 1) % PageCount
                   /\ Advanced
              ELSE probe.val = s)
  /\ [](Advanced => probe.arg[1].last_cycle_elapsed[1] + 1 >= ToI32(probe.arg[1].cycle_interval))
  /\ TimerRestarts

\* update() has advanced the page 4.9999999 s after the last page change, the
\* interval being 5.0 s.
C39_Witness ==
  /\ Advanced
  /\ probe.arg[1].cycle_interval = FromInt(5)
  /\ probe.arg[1].last_cycle_elapsed = <<4, 999999900>>
  /\ AppPages = probe.val

====
